---- MODULE Spec2Model ----
(***************************************************************************)
(* TinyG planner.c: the planner buffer pool (mb), the planning singleton   *)
(* (mm), the runtime singleton (mr), the producers mp_aline / mp_dwell /   *)
(* mp_queue_command, the executor mp_exec_move with its exec functions,    *)
(* the feedhold callbacks and mp_flush_planner.                            *)
(*                                                                         *)
(* Numbers.  The firmware computes in floating point; the model computes   *)
(* in fixed point on one axis (X):                                         *)
(*   - lengths and positions are integers counting 1/LSCALE of a length    *)
(*     unit, velocities are integers counting 1/VSCALE of a velocity unit; *)
(*   - times are in units of the minimum segment time, so                  *)
(*     MIN_SEGMENT_TIME = 1 and the estimated segment time is 2 (the       *)
(*     2500 / 5000 microsecond ratio of the firmware); a time that is a    *)
(*     quotient is kept as the pair <<numerator, denominator>>;            *)
(*   - roots and quotients round down;                                     *)
(*   - EPSILON is the smallest length the model tells from zero:           *)
(*     x < EPSILON is x <= 0 and x > EPSILON is written x >= EPSILON;      *)
(*   - the forward differences of the executor are kept exactly:           *)
(*     mr.segment_velocity, mr.forward_diff_1 and mr.forward_diff_2 count  *)
(*     1/mr.diff_scale of the velocity grid, and mr.diff_scale is          *)
(*     2 * segments^2 where _init_forward_diffs set them.                  *)
(* Each handler is one action: the foreground handlers run to completion   *)
(* and the executor interrupt is one invocation of mp_exec_move.           *)
(***************************************************************************)
EXTENDS Integers, FiniteSets, Sequences, TLC

VARIABLES mb, mm, mr, cm, st, ev

vars == <<mb, mm, mr, cm, st, ev>>

(***************************************************************************)
(* Bounds of the model                                                     *)
(***************************************************************************)
PLANNER_BUFFER_POOL_SIZE == 3
MaxLineIndex == 3
MaxHolds == 1
MaxFlushes == 1
MaxSets == 1

(***************************************************************************)
(* Program constants, in the model's units                                 *)
(***************************************************************************)
EPSILON == 1
VSCALE == 4
LSCALE == 8
JERK_MAX == 1
MIN_SEGMENT_TIME == 1
ESTD_SEGMENT_TIME == 2
JUNCTION_STRAIGHT == 10000000
EXACT_STOP_OFF == 12345678

\* inputs of mp_aline: targets (0, 1 and 8 length units) and move times
Targets == {0, 8, 64}
Minutes == {0, 1}

\* the moves requested, as pairs <<target, minutes>>: every target in one
\* minute or in none, and the far target in four minutes (a slower move to
\* a near target would cruise at a velocity that rounds to zero)
Moves == (Targets \X Minutes) \cup {<<64, 4>>}

Slots == 0 .. (PLANNER_BUFFER_POOL_SIZE - 1)

\* enum mpBufferState
MP_BUFFER_EMPTY == "EMPTY"
MP_BUFFER_LOADING == "LOADING"
MP_BUFFER_QUEUED == "QUEUED"
MP_BUFFER_PENDING == "PENDING"
MP_BUFFER_RUNNING == "RUNNING"

\* the zero value of an enum is the value memset leaves behind
MOVE_TYPE_NULL == "NULL"
MOVE_TYPE_ALINE == "ALINE"
MOVE_TYPE_DWELL == "DWELL"
MOVE_TYPE_COMMAND == "COMMAND"

MOVE_STATE_OFF == "OFF"
MOVE_STATE_NEW == "NEW"
MOVE_STATE_RUN == "RUN"
MOVE_STATE_RUN1 == "RUN1"
MOVE_STATE_RUN2 == "RUN2"
MOVE_STATE_HEAD == "HEAD"
MOVE_STATE_BODY == "BODY"
MOVE_STATE_TAIL == "TAIL"
MOVE_STATE_SKIP == "SKIP"

FEEDHOLD_OFF == "OFF"
FEEDHOLD_SYNC == "SYNC"
FEEDHOLD_PLAN == "PLAN"
FEEDHOLD_DECEL == "DECEL"
FEEDHOLD_HOLD == "HOLD"

MOTION_STOP == "STOP"
MOTION_RUN == "RUN"
MOTION_HOLD == "HOLD"

CYCLE_OFF == "OFF"
CYCLE_STARTED == "STARTED"

TG_OK == "TG_OK"
TG_EAGAIN == "TG_EAGAIN"
TG_NOOP == "TG_NOOP"
TG_COMPLETE == "TG_COMPLETE"
TG_INTERNAL_ERROR == "TG_INTERNAL_ERROR"
TG_ZERO_LENGTH_MOVE == "TG_ZERO_LENGTH_MOVE"
TG_BUFFER_FULL_FATAL == "TG_BUFFER_FULL_FATAL"
TG_GCODE_BLOCK_SKIPPED == "TG_GCODE_BLOCK_SKIPPED"

\* the null buffer pointer (buffers are named by their index in the pool)
NULL == -1
\* the null function pointer
NULL_FUNC == "NULL"

(***************************************************************************)
(* Arithmetic helpers                                                      *)
(***************************************************************************)
min(a, b) == IF a < b THEN a ELSE b
min3(a, b, c) == min(a, min(b, c))
min4(a, b, c, d) == min(min(a, b), min(c, d))
fabs(a) == IF a < 0 THEN -a ELSE a
square(a) == a * a

\* floor of the square root
sqrt(n) == CHOOSE r \in 0 .. n : r * r <= n /\ (r + 1) * (r + 1) > n

\* floor of the cube root
cbrt(n) == CHOOSE r \in 0 .. n : r * r * r <= n /\ (r + 1) * (r + 1) * (r + 1) > n

\* ceiling of a / b for a >= 0, b > 0
ceil(a, b) == (a + b - 1) \div b

_bump(a) == IF a < PLANNER_BUFFER_POOL_SIZE - 1 THEN a + 1 ELSE 0

\* bf->nx and bf->pv: the ring links are fixed by _init_buffers and every
\* clear or copy of a buffer restores them
_get_next_buffer(b) == _bump(b)
_get_prev_buffer(b) == IF b > 0 THEN b - 1 ELSE PLANNER_BUFFER_POOL_SIZE - 1

(***************************************************************************)
(* struct mpBuffer after memset(0)                                         *)
(***************************************************************************)
ZeroBuf ==
  [ bf_func |-> NULL_FUNC, cm_func |-> NULL_FUNC, lineindex |-> 0,
    buffer_state |-> MP_BUFFER_EMPTY, move_type |-> MOVE_TYPE_NULL,
    int_val |-> 0, dbl_val |-> 0, move_state |-> MOVE_STATE_OFF, replannable |-> FALSE,
    target |-> 0, unit |-> 0, time |-> 0,
    head_length |-> 0, body_length |-> 0, tail_length |-> 0, length |-> 0,
    entry_velocity |-> 0, cruise_velocity |-> 0, exit_velocity |-> 0,
    entry_vmax |-> 0, cruise_vmax |-> 0, exit_vmax |-> 0, delta_vmax |-> 0,
    braking_velocity |-> 0, jerk |-> 0 ]

_clear_buffer(bf) == ZeroBuf

\* memcpy of the whole struct, links restored: the copy carries buffer_state
_copy_buffer(bf, bp) == bp

\* struct mpMoveRuntimeSingleton, zeroed by the hard reset
ZeroMr ==
  [ lineindex |-> 0, move_state |-> MOVE_STATE_OFF, section_state |-> MOVE_STATE_OFF,
    endpoint |-> 0, position |-> 0, target |-> 0, unit |-> 0,
    head_length |-> 0, body_length |-> 0, tail_length |-> 0,
    entry_velocity |-> 0, cruise_velocity |-> 0, exit_velocity |-> 0,
    midpoint_velocity |-> 0, jerk |-> 0,
    segments |-> 0, segment_count |-> 0, segment_move_time |-> <<0, 1>>,
    segment_velocity |-> 0, forward_diff_1 |-> 0, forward_diff_2 |-> 0,
    diff_scale |-> 1 ]

\* what one handler did, for the properties: the handler, its return status,
\* the buffer it returned or dispatched with its line index, the line index
\* of the block dispatched before it (prev), its calls into the stepper
\* layer (request_exec counts st_request_exec_move), the section of the move
\* that _exec_aline's dispatcher returned from and the motion state the
\* callback ran under
NoEv ==
  [ op |-> "init", status |-> TG_OK, buf |-> NULL, lineindex |-> 0, prev |-> 0,
    func |-> NULL_FUNC, prep_line |-> 0, prep_null |-> 0, prep_dwell |-> 0,
    callback |-> 0, freed |-> 0, cycle_end |-> 0, trans |-> {}, copied |-> {},
    section |-> MOVE_STATE_OFF, motion |-> MOTION_STOP, request_exec |-> 0 ]

\* the changes of buffer state between the buffers p0 and the buffers p1, as
\* pairs <<from, to>>
_state_changes(p0, p1) ==
  { <<p0[i].buffer_state, p1[i].buffer_state>> :
      i \in { j \in DOMAIN p0 : p0[j].buffer_state # p1[j].buffer_state } }

(***************************************************************************)
(* Planner buffers                                                         *)
(***************************************************************************)
\* Faulty variant of _init_buffers, used to show that the flush property
\* below tells a full reset from a near miss: the count of available buffers
\* comes out one short
_init_buffers_short ==
  [ buffers_available |-> PLANNER_BUFFER_POOL_SIZE - 1, w |-> 0, q |-> 0, r |-> 0,
    bf |-> [i \in Slots |-> ZeroBuf] ]

_init_buffers ==
  [ buffers_available |-> PLANNER_BUFFER_POOL_SIZE, w |-> 0, q |-> 0, r |-> 0,
    bf |-> [i \in Slots |-> ZeroBuf] ]

\* Faulty variants of the pool operations, used to show that the properties
\* stated below tell the pool operations from near misses.
\* _get_write_buffer storing the line index without incrementing it
_get_write_buffer_same_index(b, m) ==
  IF b.bf[b.w].buffer_state = MP_BUFFER_EMPTY
  THEN [ mb |-> [b EXCEPT !.bf[b.w] = [ZeroBuf EXCEPT !.buffer_state = MP_BUFFER_LOADING,
                                                       !.lineindex = m.lineindex],
                          !.buffers_available = b.buffers_available - 1,
                          !.w = _get_next_buffer(b.w)],
         mm |-> m,
         ret |-> b.w ]
  ELSE [ mb |-> b, mm |-> m, ret |-> NULL ]

\* _get_write_buffer incrementing the line index before the test of the slot
_get_write_buffer_counting(b, m) ==
  IF b.bf[b.w].buffer_state = MP_BUFFER_EMPTY
  THEN [ mb |-> [b EXCEPT !.bf[b.w] = [ZeroBuf EXCEPT !.buffer_state = MP_BUFFER_LOADING,
                                                       !.lineindex = m.lineindex + 1],
                          !.buffers_available = b.buffers_available - 1,
                          !.w = _get_next_buffer(b.w)],
         mm |-> [m EXCEPT !.lineindex = m.lineindex + 1],
         ret |-> b.w ]
  ELSE [ mb |-> b, mm |-> [m EXCEPT !.lineindex = m.lineindex + 1], ret |-> NULL ]

\* _get_write_buffer: the pool and line-index counter after the call, and the
\* buffer returned (NULL when the slot at the write cursor is not EMPTY)
_get_write_buffer(b, m) ==
  IF b.bf[b.w].buffer_state = MP_BUFFER_EMPTY
  THEN [ mb |-> [b EXCEPT !.bf[b.w] = [ZeroBuf EXCEPT !.buffer_state = MP_BUFFER_LOADING,
                                                       !.lineindex = m.lineindex + 1],
                          !.buffers_available = b.buffers_available - 1,
                          !.w = _get_next_buffer(b.w)],
         mm |-> [m EXCEPT !.lineindex = m.lineindex + 1],
         ret |-> b.w ]
  ELSE [ mb |-> b, mm |-> m, ret |-> NULL ]

\* _queue_write_buffer committing the block as PENDING
_queue_write_buffer_pending(b, move_type) ==
  [b EXCEPT !.bf[b.q].move_type = move_type,
            !.bf[b.q].move_state = MOVE_STATE_NEW,
            !.bf[b.q].buffer_state = MP_BUFFER_PENDING,
            !.q = _get_next_buffer(b.q)]

\* _queue_write_buffer committing the block as RUNNING
_queue_write_buffer_running(b, move_type) ==
  [b EXCEPT !.bf[b.q].move_type = move_type,
            !.bf[b.q].move_state = MOVE_STATE_NEW,
            !.bf[b.q].buffer_state = MP_BUFFER_RUNNING,
            !.q = _get_next_buffer(b.q)]

_queue_write_buffer(b, move_type) ==
  [b EXCEPT !.bf[b.q].move_type = move_type,
            !.bf[b.q].move_state = MOVE_STATE_NEW,
            !.bf[b.q].buffer_state = MP_BUFFER_QUEUED,
            !.q = _get_next_buffer(b.q)]

\* _get_run_buffer promoting a LOADING slot as well
_get_run_buffer_loading(b) ==
  IF b.bf[b.r].buffer_state \in {MP_BUFFER_LOADING, MP_BUFFER_QUEUED, MP_BUFFER_PENDING}
  THEN [ mb |-> [b EXCEPT !.bf[b.r].buffer_state = MP_BUFFER_RUNNING], ret |-> b.r ]
  ELSE IF b.bf[b.r].buffer_state = MP_BUFFER_RUNNING
  THEN [ mb |-> b, ret |-> b.r ]
  ELSE [ mb |-> b, ret |-> NULL ]

\* _get_run_buffer: the pool after the call and the buffer returned
_get_run_buffer(b) ==
  IF b.bf[b.r].buffer_state \in {MP_BUFFER_QUEUED, MP_BUFFER_PENDING}
  THEN [ mb |-> [b EXCEPT !.bf[b.r].buffer_state = MP_BUFFER_RUNNING], ret |-> b.r ]
  ELSE IF b.bf[b.r].buffer_state = MP_BUFFER_RUNNING
  THEN [ mb |-> b, ret |-> b.r ]
  ELSE [ mb |-> b, ret |-> NULL ]

\* cm_cycle_end, called by _free_run_buffer when the queue empties
cm_cycle_end(c) == [c EXCEPT !.cycle_state = CYCLE_OFF, !.motion_state = MOTION_STOP]

\* cm_cycle_start: called by mp_exec_move when no cycle is running, and the
\* asynchronous cycle start request that ends a hold
cm_cycle_start(c) == [c EXCEPT !.cycle_start_flag = TRUE, !.cycle_state = CYCLE_STARTED]

\* _free_run_buffer without the increment of buffers_available
_free_run_buffer_uncounted(b) ==
  [ mb |-> [b EXCEPT !.bf[b.r] = [_clear_buffer(b.bf[b.r]) EXCEPT !.buffer_state = MP_BUFFER_EMPTY],
                     !.bf[_get_next_buffer(b.r)].buffer_state =
                        IF @ = MP_BUFFER_QUEUED THEN MP_BUFFER_PENDING ELSE @,
                     !.r = _get_next_buffer(b.r)],
    cycle_end |-> (b.w = _get_next_buffer(b.r)) ]

\* _free_run_buffer making the next buffer RUNNING instead of PENDING
_free_run_buffer_promoting(b) ==
  [ mb |-> [b EXCEPT !.bf[b.r] = [_clear_buffer(b.bf[b.r]) EXCEPT !.buffer_state = MP_BUFFER_EMPTY],
                     !.bf[_get_next_buffer(b.r)].buffer_state =
                        IF @ = MP_BUFFER_QUEUED THEN MP_BUFFER_RUNNING ELSE @,
                     !.r = _get_next_buffer(b.r),
                     !.buffers_available = b.buffers_available + 1],
    cycle_end |-> (b.w = _get_next_buffer(b.r)) ]

\* _free_run_buffer ending the cycle whenever the new head is not PENDING
_free_run_buffer_ending(b) ==
  [ mb |-> [b EXCEPT !.bf[b.r] = [_clear_buffer(b.bf[b.r]) EXCEPT !.buffer_state = MP_BUFFER_EMPTY],
                     !.bf[_get_next_buffer(b.r)].buffer_state =
                        IF @ = MP_BUFFER_QUEUED THEN MP_BUFFER_PENDING ELSE @,
                     !.r = _get_next_buffer(b.r),
                     !.buffers_available = b.buffers_available + 1],
    cycle_end |-> (b.bf[_get_next_buffer(b.r)].buffer_state # MP_BUFFER_PENDING) ]

\* _free_run_buffer: the pool after the call and whether the cycle was ended
\* (mb.w == mb.r after the run cursor has advanced)
_free_run_buffer(b) ==
  [ mb |-> [b EXCEPT !.bf[b.r] = [_clear_buffer(b.bf[b.r]) EXCEPT !.buffer_state = MP_BUFFER_EMPTY],
                     !.bf[_get_next_buffer(b.r)].buffer_state =
                        IF @ = MP_BUFFER_QUEUED THEN MP_BUFFER_PENDING ELSE @,
                     !.r = _get_next_buffer(b.r),
                     !.buffers_available = b.buffers_available + 1],
    cycle_end |-> (b.w = _get_next_buffer(b.r)) ]

_get_first_buffer(b) == _get_run_buffer(b)

\* _get_last_buffer, given the run buffer bf (not NULL): walks forward until
\* the next buffer is OFF or is the run buffer again
RECURSIVE _last_from(_, _, _)
_last_from(p, bp, bf) ==
  IF p[_get_next_buffer(bp)].move_state = MOVE_STATE_OFF \/ _get_next_buffer(bp) = bf
  THEN bp
  ELSE _last_from(p, _get_next_buffer(bp), bf)

\* the rest of _get_last_buffer, g being the result of its _get_run_buffer()
_last_of(g) ==
  IF g.ret = NULL THEN [ mb |-> g.mb, ret |-> NULL ]
  ELSE [ mb |-> g.mb, ret |-> _last_from(g.mb.bf, g.ret, g.ret) ]

_get_last_buffer(b) == _last_of(_get_run_buffer(b))

(***************************************************************************)
(* Aline planning helpers                                                  *)
(***************************************************************************)
\* the length tolerance is below the length grid, the velocity tolerance is
\* one step of the velocity grid
TRAPEZOID_ITERATION_MAX == 10
TRAPEZOID_LENGTH_FIT_TOLERANCE == 0
TRAPEZOID_VELOCITY_TOLERANCE == 1
TRAPEZOID_ITERATION_ERROR_PERCENT == 10
\* _get_junction_vmax for a junction with a zero unit vector (costheta = 0)
JUNCTION_CORNER == 4

\* fabs(Vi-Vt) * sqrt(fabs(Vi-Vt) * bf->recip_jerk); recip_jerk is 0 in a
\* buffer that mp_aline has not set up (memset)
_get_target_length(Vi, Vt, bf) ==
  IF bf.jerk = 0 THEN 0
  ELSE sqrt((fabs(Vi - Vt) * fabs(Vi - Vt) * fabs(Vi - Vt) * LSCALE * LSCALE)
              \div (VSCALE * VSCALE * VSCALE * bf.jerk))

\* pow(L, 0.66666666) * bf->cbrt_jerk + Vi; cbrt_jerk is 0 in a buffer that
\* mp_aline has not set up (memset)
_get_target_velocity(Vi, L, bf) ==
  IF bf.jerk = 0 THEN Vi
  ELSE cbrt((L * L * bf.jerk * VSCALE * VSCALE * VSCALE) \div (LSCALE * LSCALE)) + Vi

\* one axis: costheta = -(a_unit * b_unit) is -1 (straight), 1 (reversal) or 0
\* (one of the vectors is zero), where the result depends only on the
\* configured junction deviation and acceleration
_get_junction_vmax(a_unit, b_unit) ==
  IF -(a_unit * b_unit) < 0 THEN JUNCTION_STRAIGHT
  ELSE IF -(a_unit * b_unit) > 0 THEN 0
  ELSE JUNCTION_CORNER

MIN_HEAD_LENGTH(bf) == (MIN_SEGMENT_TIME * (bf.cruise_velocity + bf.entry_velocity) * LSCALE) \div VSCALE
MIN_TAIL_LENGTH(bf) == (MIN_SEGMENT_TIME * (bf.cruise_velocity + bf.exit_velocity) * LSCALE) \div VSCALE
MIN_BODY_LENGTH(bf) == (MIN_SEGMENT_TIME * bf.cruise_velocity * LSCALE) \div VSCALE

\* _calculate_trapezoid, tail and head cases: bf has its cruise velocity set
_trapezoid_tail_fit(bf) ==
  IF bf.length >= MIN_TAIL_LENGTH(bf) THEN [bf EXCEPT !.tail_length = bf.length]
  ELSE IF bf.length > MIN_BODY_LENGTH(bf) THEN [bf EXCEPT !.body_length = bf.length]
  ELSE [bf EXCEPT !.move_state = MOVE_STATE_SKIP]

_trapezoid_head_fit(bf) ==
  IF bf.length >= MIN_HEAD_LENGTH(bf) THEN [bf EXCEPT !.head_length = bf.length]
  ELSE IF bf.length > MIN_BODY_LENGTH(bf) THEN [bf EXCEPT !.body_length = bf.length]
  ELSE [bf EXCEPT !.move_state = MOVE_STATE_SKIP]

_trapezoid_tail(bf, minimum_length) ==
  _trapezoid_tail_fit(
    IF bf.length < minimum_length - TRAPEZOID_LENGTH_FIT_TOLERANCE
    THEN [bf EXCEPT !.entry_velocity = _get_target_velocity(bf.exit_velocity, bf.length, bf),
                    !.cruise_velocity = _get_target_velocity(bf.exit_velocity, bf.length, bf)]
    ELSE [bf EXCEPT !.cruise_velocity = bf.entry_velocity])

_trapezoid_head(bf, minimum_length) ==
  _trapezoid_head_fit(
    IF bf.length < minimum_length - TRAPEZOID_LENGTH_FIT_TOLERANCE
    THEN [bf EXCEPT !.exit_velocity = _get_target_velocity(bf.entry_velocity, bf.length, bf),
                    !.cruise_velocity = _get_target_velocity(bf.entry_velocity, bf.length, bf)]
    ELSE [bf EXCEPT !.cruise_velocity = bf.exit_velocity])

\* the do-while of the asymmetric rate-limited case: one pass sets the cruise
\* velocity from computed_velocity, recomputes the lengths and the velocity,
\* and the loop goes on while the relative change is above the threshold
\* (x / 0 compares greater for x # 0 and not greater for x = 0)
RECURSIVE _trapezoid_iterate(_, _)
_trapezoid_test(bf, computed_velocity) ==
  IF (IF computed_velocity = 0 THEN bf.cruise_velocity # computed_velocity
      ELSE fabs(bf.cruise_velocity - computed_velocity) * 100
             > TRAPEZOID_ITERATION_ERROR_PERCENT * computed_velocity)
  THEN _trapezoid_iterate(bf, computed_velocity)
  ELSE [bf EXCEPT !.cruise_velocity = computed_velocity]

_trapezoid_split(bf, h, t) ==
  IF h > t
  THEN _trapezoid_test([bf EXCEPT !.head_length = (h * bf.length) \div (h + t), !.tail_length = t],
                       _get_target_velocity(bf.entry_velocity, (h * bf.length) \div (h + t), bf))
  ELSE _trapezoid_test([bf EXCEPT !.head_length = h, !.tail_length = (t * bf.length) \div (h + t)],
                       _get_target_velocity(bf.exit_velocity, (t * bf.length) \div (h + t), bf))

_trapezoid_pass(bf) ==
  _trapezoid_split(bf, _get_target_length(bf.entry_velocity, bf.cruise_velocity, bf),
                       _get_target_length(bf.exit_velocity, bf.cruise_velocity, bf))

_trapezoid_iterate(bf, computed_velocity) ==
  _trapezoid_pass([bf EXCEPT !.cruise_velocity = computed_velocity])

\* after the loop: head from the cruise velocity, the rest is tail; then all
\* tail or all head if one of them is too short
_trapezoid_all_head(bf) ==
  IF bf.tail_length < MIN_TAIL_LENGTH(bf)
  THEN [bf EXCEPT !.head_length = bf.length, !.tail_length = 0]
  ELSE bf

_trapezoid_all_tail(bf) ==
  _trapezoid_all_head(IF bf.head_length < MIN_HEAD_LENGTH(bf)
                      THEN [bf EXCEPT !.tail_length = bf.length, !.head_length = 0]
                      ELSE bf)

_trapezoid_asymmetric(bf) ==
  _trapezoid_all_tail(
    [bf EXCEPT !.head_length = _get_target_length(bf.entry_velocity, bf.cruise_velocity, bf),
               !.tail_length = bf.length
                                 - _get_target_length(bf.entry_velocity, bf.cruise_velocity, bf)])

\* requested-fit cases: bf has its body length set
_trapezoid_requested(bf) ==
  IF bf.body_length < MIN_BODY_LENGTH(bf) /\ bf.body_length >= EPSILON
  THEN IF bf.head_length >= EPSILON
       THEN IF bf.tail_length >= EPSILON
            THEN [bf EXCEPT !.head_length = bf.head_length + bf.body_length
                                              - bf.body_length \div 2,
                            !.tail_length = bf.tail_length + bf.body_length \div 2,
                            !.body_length = 0]
            ELSE [bf EXCEPT !.head_length = bf.head_length + bf.body_length, !.body_length = 0]
       ELSE [bf EXCEPT !.tail_length = bf.tail_length + bf.body_length, !.body_length = 0]
  ELSE IF bf.head_length < EPSILON /\ bf.tail_length < EPSILON
       THEN [bf EXCEPT !.cruise_velocity = bf.entry_velocity]
       ELSE bf

\* the rate-limited symmetric case giving the head and the tail each the
\* integer half of the length, which loses the odd unit
_trapezoid_rate_floor(bf) ==
  IF bf.length < bf.head_length + bf.tail_length
  THEN IF fabs(bf.entry_velocity - bf.exit_velocity) < TRAPEZOID_VELOCITY_TOLERANCE
       THEN [bf EXCEPT !.head_length = bf.length \div 2,
                       !.tail_length = bf.length \div 2,
                       !.cruise_velocity =
                          min(bf.cruise_vmax,
                              _get_target_velocity(bf.entry_velocity, bf.length \div 2, bf))]
       ELSE _trapezoid_asymmetric(_trapezoid_iterate(bf, bf.cruise_vmax))
  ELSE _trapezoid_requested(
         [bf EXCEPT !.body_length = bf.length - bf.head_length - bf.tail_length])

\* bf has its head and tail lengths set: rate-limited or requested fit.  The
\* two halves of a length are its integer half (the tail's) and the rest (the
\* head's), so that, as in the code, they add up to the length.
_trapezoid_rate(bf) ==
  IF bf.length < bf.head_length + bf.tail_length
  THEN IF fabs(bf.entry_velocity - bf.exit_velocity) < TRAPEZOID_VELOCITY_TOLERANCE
       THEN [bf EXCEPT !.head_length = bf.length - bf.length \div 2,
                       !.tail_length = bf.length \div 2,
                       !.cruise_velocity =
                          min(bf.cruise_vmax,
                              _get_target_velocity(bf.entry_velocity,
                                                   bf.length - bf.length \div 2, bf))]
       ELSE _trapezoid_asymmetric(_trapezoid_iterate(bf, bf.cruise_vmax))
  ELSE _trapezoid_requested(
         [bf EXCEPT !.body_length = bf.length - bf.head_length - bf.tail_length])

_trapezoid_lengths(bf, h, t) ==
  _trapezoid_rate([bf EXCEPT !.head_length = IF h < MIN_HEAD_LENGTH(bf) THEN 0 ELSE h,
                             !.tail_length = IF t < MIN_TAIL_LENGTH(bf) THEN 0 ELSE t])

_trapezoid_cases(bf, minimum_length) ==
  IF bf.length <= minimum_length + MIN_BODY_LENGTH(bf) /\ bf.entry_velocity > bf.exit_velocity
  THEN _trapezoid_tail(bf, minimum_length)
  ELSE IF bf.length <= minimum_length + MIN_BODY_LENGTH(bf) /\ bf.entry_velocity < bf.exit_velocity
  THEN _trapezoid_head(bf, minimum_length)
  ELSE _trapezoid_lengths(bf, _get_target_length(bf.entry_velocity, bf.cruise_velocity, bf),
                              _get_target_length(bf.exit_velocity, bf.cruise_velocity, bf))

_trapezoid_clear(bf) ==
  _trapezoid_cases(bf, _get_target_length(bf.entry_velocity, bf.exit_velocity, bf))

_calculate_trapezoid(bf) ==
  _trapezoid_clear([bf EXCEPT !.head_length = 0, !.body_length = 0, !.tail_length = 0])

\* backward planning pass of _plan_block_list: the buffers and the buffer the
\* pass stopped at (the first buffer before the list)
RECURSIVE _plan_backward_over(_, _, _)
\* the backward pass stopping only at an empty buffer, whatever the
\* replannable flags
_plan_backward_over(p, bp0, bf) ==
  IF _get_prev_buffer(bp0) = bf \/ p[_get_prev_buffer(bp0)].buffer_state = MP_BUFFER_EMPTY
  THEN [ p |-> p, bp |-> _get_prev_buffer(bp0) ]
  ELSE _plan_backward_over(
         [p EXCEPT ![_get_prev_buffer(bp0)].braking_velocity =
            min(p[bp0].entry_vmax, p[bp0].braking_velocity) + p[_get_prev_buffer(bp0)].delta_vmax],
         _get_prev_buffer(bp0), bf)

RECURSIVE _plan_backward(_, _, _)
_plan_backward(p, bp0, bf) ==
  IF _get_prev_buffer(bp0) = bf \/ ~p[_get_prev_buffer(bp0)].replannable
  THEN [ p |-> p, bp |-> _get_prev_buffer(bp0) ]
  ELSE _plan_backward(
         [p EXCEPT ![_get_prev_buffer(bp0)].braking_velocity =
            min(p[bp0].entry_vmax, p[bp0].braking_velocity) + p[_get_prev_buffer(bp0)].delta_vmax],
         _get_prev_buffer(bp0), bf)

\* forward planning pass of _plan_block_list, up to but not including bf
RECURSIVE _plan_forward(_, _, _, _)
\* the test for an optimally planned trapezoid, b being bp after its trapezoid
_plan_optimal(p, bp, bf, b) ==
  _plan_forward(
    [p EXCEPT ![bp] =
       IF b.exit_velocity = b.exit_vmax
          \/ b.exit_velocity = p[_get_next_buffer(bp)].entry_vmax
          \/ (~p[_get_prev_buffer(bp)].replannable
              /\ b.exit_velocity = b.entry_velocity + b.delta_vmax)
       THEN [b EXCEPT !.replannable = FALSE]
       ELSE b],
    bp, bf, FALSE)

\* bp gets the entry velocity e and an exit velocity that takes no account of
\* the next block
_plan_entry_unbraked(p, bp, bf, e) ==
  _plan_optimal(p, bp, bf,
    _calculate_trapezoid(
      [p[bp] EXCEPT !.entry_velocity = e,
                    !.cruise_velocity = p[bp].cruise_vmax,
                    !.exit_velocity = min(p[bp].exit_vmax, e + p[bp].delta_vmax)]))

\* bp gets the entry velocity e
_plan_entry(p, bp, bf, e) ==
  _plan_optimal(p, bp, bf,
    _calculate_trapezoid(
      [p[bp] EXCEPT !.entry_velocity = e,
                    !.cruise_velocity = p[bp].cruise_vmax,
                    !.exit_velocity = min4(p[bp].exit_vmax,
                                           p[_get_next_buffer(bp)].braking_velocity,
                                           p[_get_next_buffer(bp)].entry_vmax,
                                           e + p[bp].delta_vmax)]))

_plan_forward(p, bp0, bf, mr_flag) ==
  IF _get_next_buffer(bp0) = bf THEN p
  ELSE _plan_entry(p, _get_next_buffer(bp0), bf,
                   IF bp0 = bf \/ mr_flag
                   THEN p[_get_next_buffer(bp0)].entry_vmax
                   ELSE p[bp0].exit_velocity)

\* the last block planned to leave at its entry velocity instead of at rest
_plan_last_moving(p, bf) ==
  [p EXCEPT ![bf] = _calculate_trapezoid(
                      [p[bf] EXCEPT !.entry_velocity = p[_get_prev_buffer(bf)].exit_velocity,
                                    !.cruise_velocity = p[bf].cruise_vmax,
                                    !.exit_velocity = p[_get_prev_buffer(bf)].exit_velocity])]

\* the last block entering at its entry_vmax whatever the block before it
_plan_last_first(p, bf) ==
  [p EXCEPT ![bf] = _calculate_trapezoid(
                      [p[bf] EXCEPT !.entry_velocity = p[bf].entry_vmax,
                                    !.cruise_velocity = p[bf].cruise_vmax,
                                    !.exit_velocity = 0])]

\* finish up the last block
_plan_last(p, bf) ==
  [p EXCEPT ![bf] = _calculate_trapezoid(
                      [p[bf] EXCEPT !.entry_velocity = p[_get_prev_buffer(bf)].exit_velocity,
                                    !.cruise_velocity = p[bf].cruise_vmax,
                                    !.exit_velocity = 0])]

_plan_passes(back, bf, mr_flag) == _plan_last(_plan_forward(back.p, back.bp, bf, mr_flag), bf)

\* _plan_block_list(bf, &mr_flag): the buffers after the call
_plan_block_list(p, bf, mr_flag) == _plan_passes(_plan_backward(p, bf, bf), bf, mr_flag)

\* the do-while of _reset_replannable_list, from the run buffer bf
RECURSIVE _reset_from(_, _, _)
_reset_from(p, bp, bf) ==
  IF _get_next_buffer(bp) # bf /\ p[_get_next_buffer(bp)].move_state # MOVE_STATE_OFF
  THEN _reset_from([p EXCEPT ![bp].replannable = TRUE], _get_next_buffer(bp), bf)
  ELSE [p EXCEPT ![bp].replannable = TRUE]

\* the rest of _reset_replannable_list, g being the result of _get_first_buffer()
_reset_of(g) ==
  IF g.ret = NULL THEN g.mb
  ELSE [g.mb EXCEPT !.bf = _reset_from(g.mb.bf, g.ret, g.ret)]

_reset_replannable_list(b) == _reset_of(_get_first_buffer(b))

(***************************************************************************)
(* Producers                                                               *)
(***************************************************************************)
PATH_EXACT_STOP == "EXACT_STOP"
PATH_CONTINUOUS == "CONTINUOUS"
\* cm_get_path_control(): the machine is configured for continuous paths
PathControls == {PATH_CONTINUOUS}

\* get_axis_vector_length rounding a shorter length up to one unit of length
get_axis_vector_length_floor(a, b) == IF fabs(a - b) < LSCALE THEN LSCALE ELSE fabs(a - b)

get_axis_vector_length(a, b) == fabs(a - b)

\* mp_aline after _get_write_buffer has returned bf: the move variables, the
\* unit vector and the jerk
_aline_block(bf, target, minutes, position) ==
  [bf EXCEPT !.bf_func = "_exec_aline",
             !.time = minutes,
             !.length = get_axis_vector_length(target, position),
             !.target = target,
             !.unit = IF target > position THEN 1 ELSE IF target < position THEN -1 ELSE 0,
             !.jerk = IF target # position THEN sqrt(square(JERK_MAX)) ELSE 0]

\* replannable, cruise_vmax, entry_vmax and delta_vmax
_aline_entry(bf, pv_unit, exact_stop) ==
  [bf EXCEPT !.replannable = (exact_stop # 0),
             !.cruise_vmax = (bf.length * VSCALE) \div (LSCALE * bf.time),
             !.entry_vmax = min3((bf.length * VSCALE) \div (LSCALE * bf.time),
                                 _get_junction_vmax(pv_unit, bf.unit), exact_stop),
             !.delta_vmax = _get_target_velocity(0, bf.length, bf)]

\* exit_vmax and braking_velocity
_aline_exit(bf, exact_stop) ==
  [bf EXCEPT !.exit_vmax = min3(bf.cruise_vmax, bf.entry_vmax + bf.delta_vmax, exact_stop),
             !.braking_velocity = bf.delta_vmax]

\* the block set up, the list replanned and the block queued
_aline_setup(b, position, bf, target, minutes, exact_stop) ==
  _queue_write_buffer(
    [b EXCEPT !.bf = _plan_block_list(
       [b.bf EXCEPT ![bf] =
          _aline_exit(_aline_entry(_aline_block(b.bf[bf], target, minutes, position),
                                   b.bf[_get_prev_buffer(bf)].unit, exact_stop),
                      exact_stop)],
       bf, FALSE)],
    MOVE_TYPE_ALINE)

mp_aline(target, minutes, path_control) ==
  /\ mm.lineindex < MaxLineIndex \/ mb.bf[mb.w].buffer_state # MP_BUFFER_EMPTY
  /\ IF minutes < EPSILON \/ get_axis_vector_length(target, mm.position) < EPSILON
     THEN /\ ev' = [NoEv EXCEPT !.op = "mp_aline", !.status = TG_ZERO_LENGTH_MOVE]
          /\ UNCHANGED <<mb, mm, mr, cm, st>>
     ELSE \E g \in {_get_write_buffer(mb, mm)} :
            IF g.ret = NULL
            THEN /\ ev' = [NoEv EXCEPT !.op = "mp_aline", !.status = TG_BUFFER_FULL_FATAL]
                 /\ mb' = g.mb
                 /\ mm' = g.mm
                 /\ UNCHANGED <<mr, cm, st>>
            ELSE /\ mb' = _aline_setup(g.mb, g.mm.position, g.ret, target, minutes,
                                       IF path_control # PATH_EXACT_STOP THEN EXACT_STOP_OFF ELSE 0)
                 /\ mm' = [g.mm EXCEPT !.position = target]
                 /\ ev' = [NoEv EXCEPT !.op = "mp_aline", !.status = TG_OK, !.buf = g.ret,
                                       !.lineindex = g.mm.lineindex,
                                       !.trans = _state_changes(mb.bf, g.mb.bf)
                                                   \cup _state_changes(g.mb.bf, mb'.bf)]
                 /\ UNCHANGED <<mr, cm, st>>

mp_dwell(seconds) ==
  /\ mm.lineindex < MaxLineIndex \/ mb.bf[mb.w].buffer_state # MP_BUFFER_EMPTY
  /\ \E g \in {_get_write_buffer(mb, mm)} :
       IF g.ret = NULL
       THEN /\ ev' = [NoEv EXCEPT !.op = "mp_dwell", !.status = TG_BUFFER_FULL_FATAL]
            /\ mb' = g.mb
            /\ mm' = g.mm
            /\ UNCHANGED <<mr, cm, st>>
       ELSE /\ mb' = _queue_write_buffer(
                       [g.mb EXCEPT !.bf[g.ret].bf_func = "_exec_dwell",
                                    !.bf[g.ret].time = seconds],
                       MOVE_TYPE_DWELL)
            /\ mm' = g.mm
            /\ ev' = [NoEv EXCEPT !.op = "mp_dwell", !.status = TG_OK, !.buf = g.ret,
                                  !.lineindex = g.mm.lineindex,
                                  !.trans = _state_changes(mb.bf, g.mb.bf)
                                              \cup _state_changes(g.mb.bf, mb'.bf)]
            /\ UNCHANGED <<mr, cm, st>>

\* mp_queue_command returns nothing: ev.status is TG_OK after a commit and
\* TG_NOOP after the silent return
mp_queue_command(cm_exec, i, f) ==
  /\ mm.lineindex < MaxLineIndex \/ mb.bf[mb.w].buffer_state # MP_BUFFER_EMPTY
  /\ \E g \in {_get_write_buffer(mb, mm)} :
       IF g.ret = NULL
       THEN /\ ev' = [NoEv EXCEPT !.op = "mp_queue_command", !.status = TG_NOOP]
            /\ mb' = g.mb
            /\ mm' = g.mm
            /\ UNCHANGED <<mr, cm, st>>
       ELSE /\ mb' = _queue_write_buffer(
                       [g.mb EXCEPT !.bf[g.ret].move_type = MOVE_TYPE_COMMAND,
                                    !.bf[g.ret].bf_func = "_exec_command",
                                    !.bf[g.ret].cm_func = cm_exec,
                                    !.bf[g.ret].int_val = i,
                                    !.bf[g.ret].dbl_val = f],
                       MOVE_TYPE_COMMAND)
            /\ mm' = g.mm
            /\ ev' = [NoEv EXCEPT !.op = "mp_queue_command", !.status = TG_OK, !.buf = g.ret,
                                  !.lineindex = g.mm.lineindex,
                                  !.trans = _state_changes(mb.bf, g.mb.bf)
                                              \cup _state_changes(g.mb.bf, mb'.bf)]
            /\ UNCHANGED <<mr, cm, st>>

\* the flush is requested late in a run (at most one block is committed
\* after it)
mp_flush_planner ==
  /\ st.flushes < MaxFlushes
  /\ mm.lineindex >= MaxLineIndex - 1
  /\ mb' = _init_buffers
  /\ cm' = [cm EXCEPT !.motion_state = MOTION_STOP]
  /\ st' = [st EXCEPT !.flushes = st.flushes + 1]
  /\ ev' = [NoEv EXCEPT !.op = "mp_flush_planner"]
  /\ UNCHANGED <<mm, mr>>

(***************************************************************************)
(* Aline execution.  Each section helper returns the runtime singleton     *)
(* after the call, the status returned and the number of st_prep_line      *)
(* calls made.  mr.segment_move_time is kept as the exact quotient         *)
(* <<num, den>> (in time units) of the section's move time by its number   *)
(* of segments.                                                            *)
(***************************************************************************)
\* st_prep_line: the stepper layer accepts the segment when the prep buffer is
\* owned by the executor, and refuses it with an error otherwise
st_prep_line == st.prep

\* the target of a segment without the rounding error correction
_segment_target_uncorrected(m, c, correction_flag) ==
  m.position + m.unit * ((m.segment_velocity * m.segment_move_time[1] * LSCALE)
                           \div (m.diff_scale * VSCALE * m.segment_move_time[2]))

\* the target of the segment
_segment_target(m, c, correction_flag) ==
  IF correction_flag /\ m.segment_count = 1
     /\ c.motion_state = MOTION_RUN /\ c.cycle_state = CYCLE_STARTED
  THEN m.endpoint
  ELSE m.position + m.unit * ((m.segment_velocity * m.segment_move_time[1] * LSCALE)
                                \div (m.diff_scale * VSCALE * m.segment_move_time[2]))

\* the segment handed over with the position advanced whatever st_prep_line
\* returns
_exec_aline_segment_advancing(m, c, correction_flag) ==
  [ mr |-> [m EXCEPT !.target = _segment_target(m, c, correction_flag),
                     !.position = _segment_target(m, c, correction_flag),
                     !.segment_count = m.segment_count - 1],
    status |-> IF m.segment_count = 1 THEN TG_COMPLETE ELSE TG_EAGAIN,
    prep_line |-> 1 ]

\* the return of _exec_aline_segment, m being mr after the decrement
_segment_return(m) ==
  [ mr |-> m,
    status |-> IF m.segment_count = 0 THEN TG_COMPLETE ELSE TG_EAGAIN,
    prep_line |-> 1 ]

_exec_aline_segment(m, c, correction_flag) ==
  _segment_return(
    [m EXCEPT !.target = _segment_target(m, c, correction_flag),
              !.position = IF st_prep_line = TG_OK
                           THEN _segment_target(m, c, correction_flag)
                           ELSE m.position,
              !.segment_count = m.segment_count - 1])

\* t2x2 is twice t2; the three fields count 1/(2 * segments^2) of the grid
_init_forward_diffs(m, t0, t2x2) ==
  [m EXCEPT !.diff_scale = 2 * square(m.segments),
            !.forward_diff_1 = t2x2 - 2 * t0,
            !.forward_diff_2 = 2 * (t2x2 - 2 * t0),
            !.segment_velocity = t0 * 2 * square(m.segments)]

\* the RUN1 period of the head and of the tail after its segment sg
_run1_return(sg) ==
  IF sg.status = TG_COMPLETE
  THEN [ mr |-> [sg.mr EXCEPT !.segment_count = sg.mr.segments,
                              !.section_state = MOVE_STATE_RUN2,
                              !.forward_diff_2 = -sg.mr.forward_diff_2],
         status |-> TG_EAGAIN, prep_line |-> sg.prep_line ]
  ELSE [ mr |-> [sg.mr EXCEPT !.forward_diff_1 = sg.mr.forward_diff_1 + sg.mr.forward_diff_2],
         status |-> TG_EAGAIN, prep_line |-> sg.prep_line ]

_exec_aline_run1(m, c) ==
  _run1_return(_exec_aline_segment(
    [m EXCEPT !.segment_velocity = m.segment_velocity + m.forward_diff_1], c, FALSE))

\* the segment of a RUN2 period
_exec_aline_run2(m, c, correction_flag) ==
  _exec_aline_segment(
    [m EXCEPT !.segment_velocity = m.segment_velocity + m.forward_diff_1,
              !.forward_diff_1 = m.forward_diff_1 + m.forward_diff_2],
    c, correction_flag)

\* the move time test: segment_move_time < MIN_SEGMENT_USEC
_segment_too_short(m) ==
  m.segment_move_time[1] < MIN_SEGMENT_TIME * m.segment_move_time[2]

\* midpoint velocity, move time, segments and segment count of an
\* acceleration or deceleration region of the given length between v0 and v1
_accel_region(m, length, v0, v1, segs) ==
  [m EXCEPT !.midpoint_velocity = (v0 + v1) \div 2,
            !.segments = segs,
            !.segment_move_time = <<length * VSCALE, LSCALE * (v0 + v1) * segs>>,
            !.segment_count = segs]

_accel_segments(length, v0, v1) ==
  ceil(length * VSCALE, LSCALE * (v0 + v1) * ESTD_SEGMENT_TIME)

\* the tail from MOVE_STATE_NEW with a skipped tail moving the position to the
\* end of the move
_tail_new_advancing(mi, c) ==
  IF _segment_too_short(mi)
  THEN [ mr |-> [mi EXCEPT !.position = mi.endpoint],
         status |-> TG_GCODE_BLOCK_SKIPPED, prep_line |-> 0 ]
  ELSE _exec_aline_run1(
         [_init_forward_diffs(mi, mi.cruise_velocity, mi.cruise_velocity + mi.exit_velocity)
            EXCEPT !.section_state = MOVE_STATE_RUN1], c)

\* the tail from MOVE_STATE_NEW, mi being mr with the region set up
_tail_new(mi, c) ==
  IF _segment_too_short(mi)
  THEN [ mr |-> mi, status |-> TG_GCODE_BLOCK_SKIPPED, prep_line |-> 0 ]
  ELSE _exec_aline_run1(
         [_init_forward_diffs(mi, mi.cruise_velocity, mi.cruise_velocity + mi.exit_velocity)
            EXCEPT !.section_state = MOVE_STATE_RUN1], c)

\* the return of the tail's RUN2 period after its segment sg
_tail_return(sg) ==
  [ mr |-> sg.mr,
    status |-> IF sg.status = TG_COMPLETE THEN TG_OK ELSE TG_EAGAIN,
    prep_line |-> sg.prep_line ]

_exec_aline_tail(m, c) ==
  IF m.section_state = MOVE_STATE_NEW
  THEN IF m.tail_length < EPSILON
       THEN [ mr |-> m, status |-> TG_OK, prep_line |-> 0 ]
       ELSE _tail_new(_accel_region(m, m.tail_length, m.cruise_velocity, m.exit_velocity,
                        _accel_segments(m.tail_length, m.cruise_velocity, m.exit_velocity)), c)
  ELSE IF m.section_state = MOVE_STATE_RUN1 THEN _exec_aline_run1(m, c)
  ELSE IF m.section_state = MOVE_STATE_RUN2 THEN _tail_return(_exec_aline_run2(m, c, TRUE))
  ELSE [ mr |-> m, status |-> TG_EAGAIN, prep_line |-> 0 ]

\* the return of the body's RUN period going back to the head when the body
\* is complete
_body_return_to_head(sg) ==
  IF sg.status = TG_COMPLETE
  THEN IF sg.mr.tail_length < EPSILON
       THEN [ mr |-> sg.mr, status |-> TG_OK, prep_line |-> sg.prep_line ]
       ELSE [ mr |-> [sg.mr EXCEPT !.move_state = MOVE_STATE_HEAD,
                                   !.section_state = MOVE_STATE_NEW],
              status |-> TG_EAGAIN, prep_line |-> sg.prep_line ]
  ELSE [ mr |-> sg.mr, status |-> TG_EAGAIN, prep_line |-> sg.prep_line ]

\* the return of the body's RUN period after its segment sg
_body_return(sg) ==
  IF sg.status = TG_COMPLETE
  THEN IF sg.mr.tail_length < EPSILON
       THEN [ mr |-> sg.mr, status |-> TG_OK, prep_line |-> sg.prep_line ]
       ELSE [ mr |-> [sg.mr EXCEPT !.move_state = MOVE_STATE_TAIL,
                                   !.section_state = MOVE_STATE_NEW],
              status |-> TG_EAGAIN, prep_line |-> sg.prep_line ]
  ELSE [ mr |-> sg.mr, status |-> TG_EAGAIN, prep_line |-> sg.prep_line ]

\* the body from MOVE_STATE_NEW, mi being mr with the region set up
_body_new(mi, c) ==
  IF _segment_too_short(mi)
  THEN [ mr |-> mi, status |-> TG_GCODE_BLOCK_SKIPPED, prep_line |-> 0 ]
  ELSE _body_return(_exec_aline_segment([mi EXCEPT !.section_state = MOVE_STATE_RUN], c, FALSE))

_body_region(m, segs) ==
  [m EXCEPT !.segments = segs,
            !.segment_move_time = <<m.body_length * VSCALE, LSCALE * m.cruise_velocity * segs>>,
            !.segment_velocity = m.cruise_velocity * m.diff_scale,
            !.segment_count = segs]

_exec_aline_body(m, c) ==
  IF m.section_state = MOVE_STATE_NEW
  THEN IF m.body_length < EPSILON
       THEN _exec_aline_tail([m EXCEPT !.move_state = MOVE_STATE_TAIL], c)
       ELSE _body_new(_body_region(m, ceil(m.body_length * VSCALE,
                                           LSCALE * m.cruise_velocity * ESTD_SEGMENT_TIME)), c)
  ELSE IF m.section_state = MOVE_STATE_RUN
  THEN _body_return(_exec_aline_segment(m, c, FALSE))
  ELSE [ mr |-> m, status |-> TG_EAGAIN, prep_line |-> 0 ]

\* the return of the head's RUN2 period after its segment sg
_head_return(sg) ==
  IF sg.status = TG_COMPLETE
  THEN IF sg.mr.body_length < EPSILON /\ sg.mr.tail_length < EPSILON
       THEN [ mr |-> sg.mr, status |-> TG_OK, prep_line |-> sg.prep_line ]
       ELSE [ mr |-> [sg.mr EXCEPT !.move_state = MOVE_STATE_BODY,
                                   !.section_state = MOVE_STATE_NEW],
              status |-> TG_EAGAIN, prep_line |-> sg.prep_line ]
  ELSE [ mr |-> sg.mr, status |-> TG_EAGAIN, prep_line |-> sg.prep_line ]

\* the head from MOVE_STATE_NEW, mi being mr with the region set up
_head_new(mi, c) ==
  IF _segment_too_short(mi)
  THEN [ mr |-> mi, status |-> TG_GCODE_BLOCK_SKIPPED, prep_line |-> 0 ]
  ELSE _exec_aline_run1(
         [_init_forward_diffs(mi, mi.entry_velocity, mi.entry_velocity + mi.cruise_velocity)
            EXCEPT !.section_state = MOVE_STATE_RUN1], c)

_exec_aline_head(m, c) ==
  IF m.section_state = MOVE_STATE_NEW
  THEN IF m.head_length < EPSILON
       THEN _exec_aline_body([m EXCEPT !.move_state = MOVE_STATE_BODY], c)
       ELSE _head_new(_accel_region(m, m.head_length, m.entry_velocity, m.cruise_velocity,
                        _accel_segments(m.head_length, m.entry_velocity, m.cruise_velocity)), c)
  ELSE IF m.section_state = MOVE_STATE_RUN1 THEN _exec_aline_run1(m, c)
  ELSE IF m.section_state = MOVE_STATE_RUN2 THEN _head_return(_exec_aline_run2(m, c, FALSE))
  ELSE [ mr |-> m, status |-> TG_EAGAIN, prep_line |-> 0 ]

(***************************************************************************)
(* Move execution.  Each callback returns the pool, the runtime singleton  *)
(* and the canonical machine after the call and, in ev, what the call did. *)
(***************************************************************************)
\* a callback's return after its call of _free_run_buffer(), which returned fr
_exec_freed(fr, m, c, e) ==
  [ mb |-> fr.mb, mr |-> m,
    cm |-> IF fr.cycle_end THEN cm_cycle_end(c) ELSE c,
    ev |-> [e EXCEPT !.freed = 1, !.cycle_end = IF fr.cycle_end THEN 1 ELSE 0] ]

\* _exec_aline: initialization to process the new incoming buffer s
_exec_aline_init(m, s) ==
  [m EXCEPT !.move_state = MOVE_STATE_HEAD,
            !.section_state = MOVE_STATE_NEW,
            !.lineindex = s.lineindex,
            !.jerk = s.jerk,
            !.head_length = s.head_length,
            !.body_length = s.body_length,
            !.tail_length = s.tail_length,
            !.entry_velocity = s.entry_velocity,
            !.cruise_velocity = s.cruise_velocity,
            !.exit_velocity = s.exit_velocity,
            !.unit = s.unit,
            !.endpoint = s.target]

\* _exec_aline: the main dispatcher to process segments
_exec_aline_dispatch(m, c) ==
  IF m.move_state = MOVE_STATE_HEAD THEN _exec_aline_head(m, c)
  ELSE IF m.move_state = MOVE_STATE_BODY THEN _exec_aline_body(m, c)
  ELSE IF m.move_state = MOVE_STATE_TAIL THEN _exec_aline_tail(m, c)
  ELSE [ mr |-> m, status |-> TG_OK, prep_line |-> 0 ]

\* feed hold post-processing that goes from SYNC straight to DECEL
_exec_aline_hold_unplanned(c, status) ==
  [c EXCEPT !.hold_state = IF c.hold_state = FEEDHOLD_SYNC THEN FEEDHOLD_DECEL
                           ELSE IF c.hold_state = FEEDHOLD_DECEL /\ status = TG_OK
                           THEN FEEDHOLD_HOLD
                           ELSE c.hold_state]

\* feed hold post-processing that waits for the end of the move to leave SYNC
_exec_aline_hold_late(c, status) ==
  [c EXCEPT !.hold_state = IF c.hold_state = FEEDHOLD_SYNC /\ status = TG_OK
                           THEN FEEDHOLD_PLAN
                           ELSE IF c.hold_state = FEEDHOLD_DECEL /\ status = TG_OK
                           THEN FEEDHOLD_HOLD
                           ELSE c.hold_state]

\* _exec_aline: feed hold post-processing
_exec_aline_hold(c, status) ==
  [c EXCEPT !.hold_state = IF c.hold_state = FEEDHOLD_SYNC THEN FEEDHOLD_PLAN
                           ELSE IF c.hold_state = FEEDHOLD_DECEL /\ status = TG_OK
                           THEN FEEDHOLD_HOLD
                           ELSE c.hold_state]

\* the run buffer freed whatever its move state
_exec_aline_done_freeing(b, m, c, bf, e) == _exec_freed(_free_run_buffer(b), m, c, e)

\* _exec_aline: the status was not TG_EAGAIN and mr has been reset
_exec_aline_done(b, m, c, bf, e) ==
  IF b.bf[bf].move_state = MOVE_STATE_RUN
  THEN _exec_freed(_free_run_buffer(b), m, c, e)
  ELSE [ mb |-> b, mr |-> m, cm |-> c, ev |-> e ]

\* _exec_aline after the dispatcher has returned x
_exec_aline_return(b, x, c, bf, e) ==
  IF x.status = TG_EAGAIN
  THEN [ mb |-> b, mr |-> x.mr, cm |-> _exec_aline_hold(c, x.status),
         ev |-> [e EXCEPT !.status = x.status, !.prep_line = x.prep_line,
                          !.section = x.mr.move_state] ]
  ELSE _exec_aline_done(
         [b EXCEPT !.bf[_get_next_buffer(bf)].replannable = FALSE],
         [x.mr EXCEPT !.move_state = MOVE_STATE_OFF, !.section_state = MOVE_STATE_OFF],
         _exec_aline_hold(c, x.status), bf,
         [e EXCEPT !.status = x.status, !.prep_line = x.prep_line,
                   !.section = x.mr.move_state])

_exec_aline_run(b, m, c, bf, e) == _exec_aline_return(b, _exec_aline_dispatch(m, c), c, bf, e)

_exec_aline(b, m, c, bf, e) ==
  IF b.bf[bf].move_state = MOVE_STATE_OFF
  THEN [ mb |-> b, mr |-> m, cm |-> c, ev |-> [e EXCEPT !.status = TG_NOOP] ]
  ELSE IF m.move_state # MOVE_STATE_OFF
  THEN _exec_aline_run(b, m, c, bf, e)
  ELSE IF c.hold_state = FEEDHOLD_HOLD
  THEN [ mb |-> b, mr |-> m, cm |-> c, ev |-> [e EXCEPT !.status = TG_NOOP] ]
  ELSE IF b.bf[bf].length < EPSILON
  THEN _exec_freed(
         _free_run_buffer([b EXCEPT !.bf[bf].replannable = FALSE,
                                    !.bf[_get_next_buffer(bf)].replannable = FALSE]),
         [m EXCEPT !.move_state = MOVE_STATE_OFF, !.section_state = MOVE_STATE_OFF],
         c, [e EXCEPT !.status = TG_NOOP, !.prep_null = 1])
  ELSE _exec_aline_run(
         [b EXCEPT !.bf[bf].replannable = FALSE, !.bf[bf].move_state = MOVE_STATE_RUN],
         _exec_aline_init(m, b.bf[bf]), c, bf, e)

_exec_dwell(b, m, c, bf, e) ==
  _exec_freed(_free_run_buffer(b), m, c, [e EXCEPT !.status = TG_OK, !.prep_dwell = 1])

_exec_command(b, m, c, bf, e) ==
  _exec_freed(_free_run_buffer(b), m, c,
              [e EXCEPT !.status = TG_OK, !.callback = 1, !.prep_null = 1])

\* st_isbusy: the step pulser has unfinished pulse work, from the executor
\* handing it a segment or a dwell until the next step of the system
st_isbusy == ev.op = "mp_exec_move" /\ (ev.prep_line = 1 \/ ev.prep_dwell = 1)

\* mp_isbusy: mr.move_state > MOVE_STATE_NEW is any state but OFF and NEW
mp_isbusy == st_isbusy \/ mr.move_state \notin {MOVE_STATE_OFF, MOVE_STATE_NEW}

\* mp_exec_move: cycle state management on a run buffer s
_exec_move_cycle(c) == IF c.cycle_state = CYCLE_OFF THEN cm_cycle_start(c) ELSE c

\* mp_exec_move: the auto state-change of the motion state
_exec_move_motion(c, s) ==
  IF c.motion_state = MOTION_STOP /\ s.move_type = MOVE_TYPE_ALINE
  THEN [c EXCEPT !.motion_state = MOTION_RUN]
  ELSE c

\* mp_exec_move: run the callback
_exec_move_callback(b, m, c, bf, e) ==
  IF b.bf[bf].bf_func = "_exec_aline" THEN _exec_aline(b, m, c, bf, e)
  ELSE IF b.bf[bf].bf_func = "_exec_dwell" THEN _exec_dwell(b, m, c, bf, e)
  ELSE IF b.bf[bf].bf_func = "_exec_command" THEN _exec_command(b, m, c, bf, e)
  ELSE [ mb |-> b, mr |-> m, cm |-> c, ev |-> [e EXCEPT !.status = TG_INTERNAL_ERROR] ]

mp_exec_move ==
  \E g \in {_get_run_buffer(mb)} :
    IF g.ret = NULL
    THEN /\ ev' = [NoEv EXCEPT !.op = "mp_exec_move", !.status = TG_NOOP]
         /\ mb' = g.mb
         /\ UNCHANGED <<mm, mr, cm, st>>
    ELSE \E x \in {_exec_move_callback(
                     g.mb, mr, _exec_move_motion(_exec_move_cycle(cm), g.mb.bf[g.ret]), g.ret,
                     [NoEv EXCEPT !.op = "mp_exec_move", !.buf = g.ret,
                                  !.lineindex = g.mb.bf[g.ret].lineindex,
                                  !.func = g.mb.bf[g.ret].bf_func])} :
           /\ mb' = x.mb
           /\ mr' = x.mr
           /\ cm' = x.cm
           /\ ev' = [x.ev EXCEPT !.trans = _state_changes(mb.bf, g.mb.bf)
                                              \cup _state_changes(g.mb.bf, x.mb.bf),
                                  !.prev = st.dispatched,
                                  !.motion = _exec_move_motion(_exec_move_cycle(cm),
                                                               g.mb.bf[g.ret]).motion_state]
           /\ st' = [st EXCEPT !.dispatched = g.mb.bf[g.ret].lineindex]
           /\ UNCHANGED mm

(***************************************************************************)
(* Feedhold                                                                *)
(***************************************************************************)
\* cm_feedhold: the hold request (the ! character)
cm_feedhold ==
  /\ st.holds < MaxHolds
  /\ cm.motion_state = MOTION_RUN
  /\ cm.hold_state = FEEDHOLD_OFF
  /\ cm' = [cm EXCEPT !.hold_state = FEEDHOLD_SYNC, !.motion_state = MOTION_HOLD,
                      !.cycle_start_flag = FALSE]
  /\ st' = [st EXCEPT !.holds = st.holds + 1]
  /\ ev' = [NoEv EXCEPT !.op = "cm_feedhold"]
  /\ UNCHANGED <<mb, mm, mr>>

\* the cycle start request (the ~ character)
cm_request_cycle_start ==
  /\ ~cm.cycle_start_flag
  /\ cm.hold_state # FEEDHOLD_OFF
  /\ cm' = cm_cycle_start(cm)
  /\ ev' = [NoEv EXCEPT !.op = "cm_cycle_start"]
  /\ UNCHANGED <<mb, mm, mr, st>>

_compute_next_segment_velocity(m) ==
  IF m.move_state = MOVE_STATE_BODY THEN m.segment_velocity \div m.diff_scale
  ELSE (m.segment_velocity + m.forward_diff_1) \div m.diff_scale

\* the braking length after the hack for perfect-fit decels, bl being the
\* braking length computed from the braking velocity
_hold_braking_length(bl, mr_available_length, s) ==
  IF bl > mr_available_length /\ s.exit_velocity < EPSILON THEN mr_available_length ELSE bl

\* case 1: bp+0 is the hold point and draws the remaining length
_hold_point(s) ==
  [s EXCEPT !.delta_vmax = _get_target_velocity(0, s.length, s),
            !.entry_vmax = 0,
            !.move_state = MOVE_STATE_NEW]

\* the for loop of case 2: the buffers, the buffer bp the loop left at and
\* the braking length
RECURSIVE _hold_case2_loop(_, _, _, _, _)
\* bp is an aline with its entry_vmax set, braking_length is computed from it
_hold_case2_fit(p, bp, braking_velocity, braking_length, i) ==
  IF braking_length > p[bp].length
  THEN _hold_case2_loop(
         [p EXCEPT ![bp].exit_vmax =
            braking_velocity - _get_target_velocity(0, p[bp].length, p[bp])],
         _get_next_buffer(bp),
         braking_velocity - _get_target_velocity(0, p[bp].length, p[bp]),
         braking_length, i + 1)
  ELSE [ p |-> p, bp |-> bp, braking_length |-> braking_length ]

\* bp holds the copy of bp+1
_hold_case2_copied(p, bp, braking_velocity, braking_length, i) ==
  IF p[bp].move_type # MOVE_TYPE_ALINE
  THEN _hold_case2_loop(p, _get_next_buffer(bp), braking_velocity, braking_length, i + 1)
  ELSE _hold_case2_fit([p EXCEPT ![bp].entry_vmax = braking_velocity], bp, braking_velocity,
                       _get_target_length(braking_velocity, 0, p[bp]), i)

_hold_case2_loop(p, bp, braking_velocity, braking_length, i) ==
  IF i >= PLANNER_BUFFER_POOL_SIZE
  THEN [ p |-> p, bp |-> bp, braking_length |-> braking_length ]
  ELSE _hold_case2_copied([p EXCEPT ![bp] = _copy_buffer(p[bp], p[_get_next_buffer(bp)])],
                          bp, braking_velocity, braking_length, i)

\* case 2: the acceleration buffer a after its length has been cut
_hold_case2_accel(p, a) ==
  [p EXCEPT ![a].delta_vmax = _get_target_velocity(0, p[a].length, p[a]),
            ![a].exit_vmax = _get_target_velocity(0, p[a].length, p[a])]

\* case 2: the first buffer of the pair as the decel, the second as the
\* accel, lp being what the loop returned
_hold_case2_pair(lp) ==
  _hold_case2_accel(
    [lp.p EXCEPT ![lp.bp].length = lp.braking_length,
                 ![lp.bp].exit_vmax = 0,
                 ![_get_next_buffer(lp.bp)].entry_vmax = 0,
                 ![_get_next_buffer(lp.bp)].length = @ - lp.braking_length],
    _get_next_buffer(lp.bp))

\* _plan_block_list(_get_last_buffer(), &mr_flag), g being what
\* _get_last_buffer() returned
_hold_plan(g) ==
  IF g.ret = NULL THEN g.mb
  ELSE [g.mb EXCEPT !.bf = _plan_block_list(g.mb.bf, g.ret, TRUE)]

\* the replan without _reset_replannable_list()
_hold_replan_unreset(b) == _hold_plan(_get_last_buffer(b))

\* _reset_replannable_list(); _plan_block_list(_get_last_buffer(), &mr_flag)
_hold_replan(b) == _hold_plan(_get_last_buffer(_reset_replannable_list(b)))

mp_plan_hold_callback ==
  /\ cm.hold_state = FEEDHOLD_PLAN
  /\ \E g \in {_get_run_buffer(mb)} :
       IF g.ret = NULL
       THEN /\ ev' = [NoEv EXCEPT !.op = "mp_plan_hold_callback", !.status = TG_NOOP,
                                  !.trans = _state_changes(mb.bf, g.mb.bf)]
            /\ mb' = g.mb
            /\ UNCHANGED <<mm, mr, cm, st>>
       ELSE
         \E mr_available_length \in {get_axis_vector_length(mr.endpoint, mr.position)},
            braking_velocity \in {_compute_next_segment_velocity(mr)} :
         \E braking_length \in {_hold_braking_length(
                                  _get_target_length(braking_velocity, 0, g.mb.bf[g.ret]),
                                  mr_available_length, g.mb.bf[g.ret])} :
           IF braking_length <= mr_available_length
           THEN \* case 1: the deceleration fits entirely in mr
             /\ mr' = [mr EXCEPT !.exit_velocity = 0,
                                 !.tail_length = braking_length,
                                 !.cruise_velocity = braking_velocity,
                                 !.move_state = MOVE_STATE_TAIL,
                                 !.section_state = MOVE_STATE_NEW]
             /\ mb' = _hold_replan(
                        [g.mb EXCEPT !.bf[g.ret] =
                           _hold_point([g.mb.bf[g.ret] EXCEPT
                                          !.length = mr_available_length - braking_length])])
             /\ cm' = [cm EXCEPT !.hold_state = FEEDHOLD_DECEL]
             /\ ev' = [NoEv EXCEPT !.op = "mp_plan_hold_callback", !.status = TG_OK,
                                   !.buf = g.ret, !.func = "case1",
                                   !.trans = _state_changes(mb.bf, g.mb.bf)
                                               \cup _state_changes(g.mb.bf, mb'.bf)]
             /\ UNCHANGED <<mm, st>>
           ELSE \* case 2: the deceleration exceeds the length left in mr
             \E exit_velocity \in {braking_velocity
                                     - _get_target_velocity(0, mr_available_length,
                                                            g.mb.bf[g.ret])} :
               /\ mr' = [mr EXCEPT !.move_state = MOVE_STATE_TAIL,
                                   !.section_state = MOVE_STATE_NEW,
                                   !.tail_length = mr_available_length,
                                   !.cruise_velocity = braking_velocity,
                                   !.exit_velocity = exit_velocity]
               /\ \E p \in {_hold_case2_pair(_hold_case2_loop(
                               [g.mb.bf EXCEPT ![g.ret].move_state = MOVE_STATE_NEW],
                               g.ret, exit_velocity, braking_length, 0))} :
                    /\ mb' = _hold_replan([g.mb EXCEPT !.bf = p])
                    /\ ev' = [NoEv EXCEPT !.op = "mp_plan_hold_callback", !.status = TG_OK,
                                          !.buf = g.ret, !.func = "case2",
                                          !.copied = _state_changes(g.mb.bf, p),
                                          !.trans = _state_changes(mb.bf, g.mb.bf)
                                                      \cup _state_changes(p, mb'.bf)]
               /\ cm' = [cm EXCEPT !.hold_state = FEEDHOLD_DECEL]
               /\ UNCHANGED <<mm, st>>

\* mp_end_hold_callback that does not wait for the cycle start flag
_end_hold_unflagged(b, c) ==
  IF c.hold_state = FEEDHOLD_HOLD
  THEN [ mb |-> _get_run_buffer(b).mb,
         cm |-> [c EXCEPT !.cycle_start_flag = FALSE,
                          !.hold_state = FEEDHOLD_OFF,
                          !.motion_state = IF _get_run_buffer(b).ret = NULL
                                           THEN MOTION_STOP ELSE MOTION_RUN],
         bf |-> _get_run_buffer(b).ret,
         status |-> IF _get_run_buffer(b).ret = NULL THEN TG_NOOP ELSE TG_OK,
         request_exec |-> IF _get_run_buffer(b).ret = NULL THEN 0 ELSE 1 ]
  ELSE [ mb |-> b, cm |-> c, bf |-> NULL, status |-> TG_OK, request_exec |-> 0 ]

\* the body of mp_end_hold_callback on the pool b and the canonical machine
\* c: the pool and the machine after the call, the run buffer it got, its
\* return status and its calls of st_request_exec_move
_end_hold(b, c) ==
  IF c.hold_state = FEEDHOLD_HOLD /\ c.cycle_start_flag
  THEN [ mb |-> _get_run_buffer(b).mb,
         cm |-> [c EXCEPT !.cycle_start_flag = FALSE,
                          !.hold_state = FEEDHOLD_OFF,
                          !.motion_state = IF _get_run_buffer(b).ret = NULL
                                           THEN MOTION_STOP ELSE MOTION_RUN],
         bf |-> _get_run_buffer(b).ret,
         status |-> IF _get_run_buffer(b).ret = NULL THEN TG_NOOP ELSE TG_OK,
         request_exec |-> IF _get_run_buffer(b).ret = NULL THEN 0 ELSE 1 ]
  ELSE [ mb |-> b, cm |-> c, bf |-> NULL, status |-> TG_OK, request_exec |-> 0 ]

\* the call of mp_end_hold_callback from the main loop when a hold is to be
\* ended; called in any other state it returns TG_OK and changes nothing
mp_end_hold_callback ==
  /\ cm.hold_state = FEEDHOLD_HOLD
  /\ cm.cycle_start_flag
  /\ \E x \in {_end_hold(mb, cm)} :
       /\ mb' = x.mb
       /\ cm' = x.cm
       /\ ev' = [NoEv EXCEPT !.op = "mp_end_hold_callback",
                             !.status = x.status,
                             !.buf = x.bf,
                             !.request_exec = x.request_exec,
                             !.trans = _state_changes(mb.bf, x.mb.bf)]
       /\ UNCHANGED <<mm, mr, st>>

(***************************************************************************)
(* Specification                                                           *)
(***************************************************************************)
Init ==
  /\ mb = _init_buffers
  /\ mm = [ lineindex |-> 0, position |-> 0 ]
  /\ mr = ZeroMr
  /\ cm = [ hold_state |-> FEEDHOLD_OFF, motion_state |-> MOTION_STOP,
            cycle_state |-> CYCLE_OFF, cycle_start_flag |-> FALSE ]
  /\ st = [ holds |-> 0, flushes |-> 0, dispatched |-> 0,
            pc |-> "idle", bf |-> NULL, bp |-> NULL, sets |-> 0,
            prep |-> TG_OK, i |-> 0, computed_velocity |-> 0,
            buffers_available |-> 0 ]
  /\ ev = NoEv

Next ==
  \/ \E move \in Moves, path_control \in PathControls :
       mp_aline(move[1], move[2], path_control)
  \/ \E seconds \in {1} : mp_dwell(seconds)
  \/ \E i \in {1} : mp_queue_command("cm_exec", i, 0)
  \/ mp_exec_move
  \/ cm_feedhold
  \/ cm_request_cycle_start
  \/ mp_plan_hold_callback
  \/ mp_end_hold_callback
  \/ mp_flush_planner

Spec == Init /\ [][Next]_vars

\* Fair scheduling.  The executor interrupt is requested whenever a block is
\* committed and after every segment, and the controller calls the two
\* feedhold callbacks on every pass of its main loop, so each of the three
\* is weakly fair.  A call that finds nothing to do changes nothing but the
\* record of the last step, and only the first such call is a step.
\*
\* The steps of mp_exec_move and of mp_plan_hold_callback are named by their
\* enabling condition and by the record of the last step; the first disjunct
\* of each is a successor by which the enabling condition is decided without
\* computing the step, and is no step of Next (no action sets the status
\* FAIR_STEP).
FAIR_STEP == "FAIR_STEP"

mp_exec_move_enabled ==
  \/ _get_run_buffer(mb).ret # NULL
  \/ ev # [NoEv EXCEPT !.op = "mp_exec_move", !.status = TG_NOOP]

mp_exec_move_step ==
  /\ mp_exec_move_enabled
  /\ \/ /\ ev' = [NoEv EXCEPT !.op = "mp_exec_move", !.status = FAIR_STEP]
        /\ UNCHANGED <<mb, mm, mr, cm, st>>
     \/ ev'.op = "mp_exec_move"

mp_plan_hold_callback_enabled ==
  /\ cm.hold_state = FEEDHOLD_PLAN
  /\ \/ _get_run_buffer(mb).ret # NULL
     \/ ev # [NoEv EXCEPT !.op = "mp_plan_hold_callback", !.status = TG_NOOP]

mp_plan_hold_callback_step ==
  /\ mp_plan_hold_callback_enabled
  /\ \/ /\ ev' = [NoEv EXCEPT !.op = "mp_plan_hold_callback", !.status = FAIR_STEP]
        /\ UNCHANGED <<mb, mm, mr, cm, st>>
     \/ ev'.op = "mp_plan_hold_callback"

\* the moves, the executor and the feedhold, without a flush of the queue
HoldNext ==
  \/ \E move \in Moves, path_control \in PathControls :
       mp_aline(move[1], move[2], path_control)
  \/ \E seconds \in {1} : mp_dwell(seconds)
  \/ \E i \in {1} : mp_queue_command("cm_exec", i, 0)
  \/ mp_exec_move
  \/ cm_feedhold
  \/ cm_request_cycle_start
  \/ mp_plan_hold_callback
  \/ mp_end_hold_callback

HoldFairSpec ==
  /\ Init /\ [][HoldNext]_vars
  /\ WF_vars(mp_exec_move_step)
  /\ WF_vars(mp_plan_hold_callback_step)
  /\ WF_vars(mp_end_hold_callback)

\* the moves, the executor and the flush with no feedhold requested, and a
\* fair executor
DrainNext ==
  \/ \E move \in Moves, path_control \in PathControls :
       mp_aline(move[1], move[2], path_control)
  \/ \E seconds \in {1} : mp_dwell(seconds)
  \/ \E i \in {1} : mp_queue_command("cm_exec", i, 0)
  \/ mp_exec_move
  \/ mp_flush_planner

ExecFairSpec ==
  /\ Init /\ [][DrainNext]_vars
  /\ WF_vars(mp_exec_move_step)

(***************************************************************************)
(* The planner preempted by the executor.  mp_aline runs in the foreground *)
(* and mp_exec_move in the low-priority interrupt, which can arrive        *)
(* between any two statements of mp_aline and runs to completion.  Here    *)
(* mp_aline is taken in steps: the block set up, one step per iteration of *)
(* the backward pass of _plan_block_list, two steps per iteration of the   *)
(* forward pass (the velocities, then _calculate_trapezoid and the test    *)
(* for an optimal plan), and the last block with the commit.  st.pc is the *)
(* planner's position, st.bf the block being queued and st.bp the loop     *)
(* pointer of _plan_block_list.  In ev, buf is the slot whose velocities   *)
(* or lengths the step wrote.                                              *)
(***************************************************************************)
\* mp_aline up to the call of _plan_block_list
mp_aline_start(target, minutes, path_control) ==
  /\ st.pc = "idle"
  /\ mm.lineindex < MaxLineIndex
  /\ minutes >= EPSILON
  /\ get_axis_vector_length(target, mm.position) >= EPSILON
  /\ \E g \in {_get_write_buffer(mb, mm)} :
       /\ g.ret # NULL
       /\ mb' = [g.mb EXCEPT !.bf[g.ret] =
                   _aline_exit(_aline_entry(_aline_block(g.mb.bf[g.ret], target, minutes,
                                                         g.mm.position),
                                            g.mb.bf[_get_prev_buffer(g.ret)].unit,
                                            IF path_control # PATH_EXACT_STOP
                                            THEN EXACT_STOP_OFF ELSE 0),
                               IF path_control # PATH_EXACT_STOP THEN EXACT_STOP_OFF ELSE 0)]
       /\ mm' = g.mm
       /\ st' = [st EXCEPT !.pc = "backward", !.bf = g.ret, !.bp = g.ret]
       /\ ev' = [NoEv EXCEPT !.op = "mp_aline", !.lineindex = g.mm.lineindex,
                             !.trans = _state_changes(mb.bf, g.mb.bf)]
       /\ UNCHANGED <<mr, cm>>

\* one iteration of the backward pass of _plan_block_list
_plan_block_list_backward ==
  /\ st.pc = "backward"
  /\ IF _get_prev_buffer(st.bp) = st.bf \/ ~mb.bf[_get_prev_buffer(st.bp)].replannable
     THEN /\ st' = [st EXCEPT !.pc = "forward", !.bp = _get_prev_buffer(st.bp)]
          /\ ev' = [NoEv EXCEPT !.op = "_plan_block_list", !.func = "backward"]
          /\ UNCHANGED mb
     ELSE /\ mb' = [mb EXCEPT !.bf[_get_prev_buffer(st.bp)].braking_velocity =
                      min(mb.bf[st.bp].entry_vmax, mb.bf[st.bp].braking_velocity)
                        + mb.bf[_get_prev_buffer(st.bp)].delta_vmax]
          /\ st' = [st EXCEPT !.bp = _get_prev_buffer(st.bp)]
          /\ ev' = [NoEv EXCEPT !.op = "_plan_block_list", !.func = "backward",
                                !.buf = _get_prev_buffer(st.bp)]
  /\ UNCHANGED <<mm, mr, cm>>

\* one iteration of the forward pass of _plan_block_list up to the call of
\* _calculate_trapezoid
_plan_block_list_forward ==
  /\ st.pc = "forward"
  /\ IF _get_next_buffer(st.bp) = st.bf
     THEN /\ st' = [st EXCEPT !.pc = "last", !.bp = st.bf]
          /\ ev' = [NoEv EXCEPT !.op = "_plan_block_list", !.func = "forward"]
          /\ UNCHANGED mb
     ELSE \E bp \in {_get_next_buffer(st.bp)}, e \in {IF st.bp = st.bf
                                                      THEN mb.bf[_get_next_buffer(st.bp)].entry_vmax
                                                      ELSE mb.bf[st.bp].exit_velocity} :
          /\ mb' = [mb EXCEPT !.bf[bp] =
                      [mb.bf[bp] EXCEPT
                         !.entry_velocity = e,
                         !.cruise_velocity = mb.bf[bp].cruise_vmax,
                         !.exit_velocity = min4(mb.bf[bp].exit_vmax,
                                                mb.bf[_get_next_buffer(bp)].braking_velocity,
                                                mb.bf[_get_next_buffer(bp)].entry_vmax,
                                                e + mb.bf[bp].delta_vmax)]]
          /\ st' = [st EXCEPT !.pc = "trapezoid", !.bp = bp]
          /\ ev' = [NoEv EXCEPT !.op = "_plan_block_list", !.func = "forward", !.buf = bp]
  /\ UNCHANGED <<mm, mr, cm>>

\* the rest of the iteration: _calculate_trapezoid and the test for an
\* optimally planned trapezoid
_plan_block_list_trapezoid ==
  /\ st.pc = "trapezoid"
  /\ \E b \in {_calculate_trapezoid(mb.bf[st.bp])} :
       mb' = [mb EXCEPT !.bf[st.bp] =
                IF b.exit_velocity = b.exit_vmax
                   \/ b.exit_velocity = mb.bf[_get_next_buffer(st.bp)].entry_vmax
                   \/ (~mb.bf[_get_prev_buffer(st.bp)].replannable
                       /\ b.exit_velocity = b.entry_velocity + b.delta_vmax)
                THEN [b EXCEPT !.replannable = FALSE]
                ELSE b]
  /\ st' = [st EXCEPT !.pc = "forward"]
  /\ ev' = [NoEv EXCEPT !.op = "_plan_block_list", !.func = "_calculate_trapezoid",
                        !.buf = st.bp]
  /\ UNCHANGED <<mm, mr, cm>>

\* the last block of _plan_block_list and the rest of mp_aline: the planning
\* position updated and the block queued
mp_aline_finish ==
  /\ st.pc = "last"
  /\ mb' = _queue_write_buffer([mb EXCEPT !.bf = _plan_last(mb.bf, st.bf)], MOVE_TYPE_ALINE)
  /\ mm' = [mm EXCEPT !.position = mb.bf[st.bf].target]
  /\ st' = [st EXCEPT !.pc = "idle", !.bf = NULL, !.bp = NULL]
  /\ ev' = [NoEv EXCEPT !.op = "mp_aline", !.status = TG_OK, !.buf = st.bf,
                        !.lineindex = mb.bf[st.bf].lineindex,
                        !.trans = _state_changes(mb.bf, mb'.bf)]
  /\ UNCHANGED <<mr, cm>>

RaceNext ==
  \/ \E move \in Moves, path_control \in PathControls :
       mp_aline_start(move[1], move[2], path_control)
  \/ _plan_block_list_backward
  \/ _plan_block_list_forward
  \/ _plan_block_list_trapezoid
  \/ mp_aline_finish
  \/ mp_exec_move

RaceSpec == Init /\ [][RaceNext]_vars

(***************************************************************************)
(* The foreground setters.  The canonical machine calls them to set the    *)
(* position (homing, arcs), the line index and the velocity reported after *)
(* the last segment; they are taken to be called while motion is stopped,  *)
(* no feedhold is in progress and the runtime is not in a move.  SetSpec   *)
(* has the setters, each behaviour using at most MaxSets of them, with the *)
(* lines, the executor, the feedhold and the flush of Spec.                *)
(***************************************************************************)
\* mp_set_axes_position writing the endpoint of the runtime as well
mp_set_axes_position_endpoint(position) ==
  /\ st.sets < MaxSets
  /\ cm.motion_state = MOTION_STOP /\ cm.hold_state = FEEDHOLD_OFF
  /\ mr.move_state = MOVE_STATE_OFF
  /\ mm' = [mm EXCEPT !.position = position]
  /\ mr' = [mr EXCEPT !.position = position, !.endpoint = position]
  /\ st' = [st EXCEPT !.sets = st.sets + 1]
  /\ ev' = [NoEv EXCEPT !.op = "mp_set_axes_position"]
  /\ UNCHANGED <<mb, cm>>

mp_set_axes_position(position) ==
  /\ st.sets < MaxSets
  /\ cm.motion_state = MOTION_STOP /\ cm.hold_state = FEEDHOLD_OFF
  /\ mr.move_state = MOVE_STATE_OFF
  /\ mm' = [mm EXCEPT !.position = position]
  /\ mr' = [mr EXCEPT !.position = position]
  /\ st' = [st EXCEPT !.sets = st.sets + 1]
  /\ ev' = [NoEv EXCEPT !.op = "mp_set_axes_position"]
  /\ UNCHANGED <<mb, cm>>

\* the model has one axis
mp_set_axis_position(axis, position) ==
  /\ st.sets < MaxSets
  /\ cm.motion_state = MOTION_STOP /\ cm.hold_state = FEEDHOLD_OFF
  /\ mr.move_state = MOVE_STATE_OFF
  /\ mm' = [mm EXCEPT !.position = position]
  /\ mr' = [mr EXCEPT !.position = position]
  /\ st' = [st EXCEPT !.sets = st.sets + 1]
  /\ ev' = [NoEv EXCEPT !.op = "mp_set_axis_position"]
  /\ UNCHANGED <<mb, cm>>

mp_set_plan_lineindex(lineindex) ==
  /\ st.sets < MaxSets
  /\ cm.motion_state = MOTION_STOP /\ cm.hold_state = FEEDHOLD_OFF
  /\ mr.move_state = MOVE_STATE_OFF
  /\ mm' = [mm EXCEPT !.lineindex = lineindex]
  /\ mr' = [mr EXCEPT !.lineindex = lineindex]
  /\ st' = [st EXCEPT !.sets = st.sets + 1]
  /\ ev' = [NoEv EXCEPT !.op = "mp_set_plan_lineindex"]
  /\ UNCHANGED <<mb, cm>>

mp_zero_segment_velocity ==
  /\ st.sets < MaxSets
  /\ cm.motion_state = MOTION_STOP /\ cm.hold_state = FEEDHOLD_OFF
  /\ mr.move_state = MOVE_STATE_OFF
  /\ mr' = [mr EXCEPT !.segment_velocity = 0]
  /\ st' = [st EXCEPT !.sets = st.sets + 1]
  /\ ev' = [NoEv EXCEPT !.op = "mp_zero_segment_velocity"]
  /\ UNCHANGED <<mb, mm, cm>>

SetNext ==
  \/ \E move \in Moves, path_control \in PathControls :
       mp_aline(move[1], move[2], path_control)
  \/ mp_exec_move
  \/ cm_feedhold
  \/ cm_request_cycle_start
  \/ mp_plan_hold_callback
  \/ mp_end_hold_callback
  \/ mp_flush_planner
  \/ \E position \in {8} : mp_set_axes_position(position)
  \/ \E position \in {8} : mp_set_axis_position(0, position)
  \/ \E lineindex \in {MaxLineIndex} : mp_set_plan_lineindex(lineindex)
  \/ mp_zero_segment_velocity

SetSpec == Init /\ [][SetNext]_vars

(***************************************************************************)
(* Long moves: one fast line followed by slower lines in the same          *)
(* direction, run and held.  The blocks of these moves enter within a      *)
(* short head of their requested velocity.                                 *)
(***************************************************************************)
FastMoves == {<<128, 1>>, <<192, 2>>, <<256, 2>>}

FastNext ==
  \/ \E move \in FastMoves : mp_aline(move[1], move[2], PATH_CONTINUOUS)
  \/ mp_exec_move
  \/ cm_feedhold
  \/ cm_request_cycle_start
  \/ mp_plan_hold_callback
  \/ mp_end_hold_callback

FastSpec == Init /\ [][FastNext]_vars

(***************************************************************************)
(* Short moves: lines of two length units each in the same direction, run  *)
(* and held.  A hold in one of these lines leaves a rest that is too short *)
(* for any section.                                                        *)
(***************************************************************************)
ShortMoves == {<<16, 1>>, <<32, 1>>, <<48, 1>>}

ShortNext ==
  \/ \E move \in ShortMoves : mp_aline(move[1], move[2], PATH_CONTINUOUS)
  \/ mp_exec_move
  \/ cm_feedhold
  \/ cm_request_cycle_start
  \/ mp_plan_hold_callback
  \/ mp_end_hold_callback

ShortSpec == Init /\ [][ShortNext]_vars

(***************************************************************************)
(* The executor with a step pulser that can refuse a segment.  The pulser  *)
(* owns the prep buffer while it loads it; st_prep_line returns an error   *)
(* when called in that period and accepts the segment otherwise.           *)
(***************************************************************************)
\* the prep buffer changes hands between the pulser and the executor
st_prep_owner ==
  /\ st' = [st EXCEPT !.prep = IF st.prep = TG_OK THEN TG_INTERNAL_ERROR ELSE TG_OK]
  /\ ev' = [NoEv EXCEPT !.op = "st_prep_owner"]
  /\ UNCHANGED <<mb, mm, mr, cm>>

PrepNext ==
  \/ \E move \in Moves, path_control \in PathControls :
       mp_aline(move[1], move[2], path_control)
  \/ mp_exec_move
  \/ st_prep_owner

PrepSpec == Init /\ [][PrepNext]_vars

(***************************************************************************)
(* The asymmetric rate-limited case of _calculate_trapezoid in steps: one  *)
(* step per pass of its do-while loop and one for the code after the loop. *)
(* The block is in slot 0 and a copy of the block as it was handed to      *)
(* _calculate_trapezoid stays in slot 1.  st.computed_velocity and st.i    *)
(* are the locals computed_velocity and i (a uint8_t).                     *)
(***************************************************************************)
TrapVelocities == {0, 8, 16, 24, 32}
TrapCruises == {32, 48, 64}
TrapLengths == {16 * k : k \in 1 .. 64}

\* a block as _plan_block_list hands it to _calculate_trapezoid
_trapezoid_input(entry, exit, cruise, length) ==
  [ZeroBuf EXCEPT !.entry_velocity = entry, !.exit_velocity = exit,
                  !.cruise_vmax = cruise, !.cruise_velocity = cruise,
                  !.length = length, !.jerk = JERK_MAX]

\* the block with its head and tail lengths set, before the rate-limited test
_trapezoid_sized(bf) ==
  LET h == _get_target_length(bf.entry_velocity, bf.cruise_velocity, bf)
      t == _get_target_length(bf.exit_velocity, bf.cruise_velocity, bf)
  IN [bf EXCEPT !.head_length = IF h < MIN_HEAD_LENGTH(bf) THEN 0 ELSE h,
                !.tail_length = IF t < MIN_TAIL_LENGTH(bf) THEN 0 ELSE t]

\* the tests that lead _calculate_trapezoid to the do-while loop
_trapezoid_loops(bf) ==
  /\ ~(bf.length <= _get_target_length(bf.entry_velocity, bf.exit_velocity, bf)
                      + MIN_BODY_LENGTH(bf)
       /\ bf.entry_velocity # bf.exit_velocity)
  /\ bf.length < _trapezoid_sized(bf).head_length + _trapezoid_sized(bf).tail_length
  /\ ~(fabs(bf.entry_velocity - bf.exit_velocity) < TRAPEZOID_VELOCITY_TOLERANCE)

\* one pass of the do-while loop: the block and computed_velocity after it
_trapezoid_once(bf, computed_velocity) ==
  LET b == [bf EXCEPT !.cruise_velocity = computed_velocity]
      h == _get_target_length(b.entry_velocity, b.cruise_velocity, b)
      t == _get_target_length(b.exit_velocity, b.cruise_velocity, b)
  IN IF h > t
     THEN [ bf |-> [b EXCEPT !.head_length = (h * b.length) \div (h + t), !.tail_length = t],
            computed_velocity |->
              _get_target_velocity(b.entry_velocity, (h * b.length) \div (h + t), b) ]
     ELSE [ bf |-> [b EXCEPT !.head_length = h, !.tail_length = (t * b.length) \div (h + t)],
            computed_velocity |->
              _get_target_velocity(b.exit_velocity, (t * b.length) \div (h + t), b) ]

\* the loop going on whatever the change of the cruise velocity, as long as
\* there is one
_trapezoid_again_exact(bf, computed_velocity) == bf.cruise_velocity # computed_velocity

\* the while condition of the loop
_trapezoid_again(bf, computed_velocity) ==
  IF computed_velocity = 0 THEN bf.cruise_velocity # computed_velocity
  ELSE fabs(bf.cruise_velocity - computed_velocity) * 100
         > TRAPEZOID_ITERATION_ERROR_PERCENT * computed_velocity

TrapInit ==
  /\ \E entry \in TrapVelocities, exit \in TrapVelocities,
        cruise \in TrapCruises, length \in TrapLengths :
       /\ entry <= cruise /\ exit <= cruise
       /\ _trapezoid_loops(_trapezoid_input(entry, exit, cruise, length))
       /\ mb = [_init_buffers EXCEPT
                  !.bf[0] = _trapezoid_sized(_trapezoid_input(entry, exit, cruise, length)),
                  !.bf[1] = _trapezoid_input(entry, exit, cruise, length)]
       /\ st = [ holds |-> 0, flushes |-> 0, dispatched |-> 0,
                 pc |-> "iterate", bf |-> 0, bp |-> NULL, sets |-> 0,
                 prep |-> TG_OK, i |-> 0, computed_velocity |-> cruise,
                 buffers_available |-> 0 ]
  /\ mm = [ lineindex |-> 0, position |-> 0 ]
  /\ mr = ZeroMr
  /\ cm = [ hold_state |-> FEEDHOLD_OFF, motion_state |-> MOTION_STOP,
            cycle_state |-> CYCLE_OFF, cycle_start_flag |-> FALSE ]
  /\ ev = NoEv

\* one pass of the loop, ++i included (the test of i only prints a message)
_calculate_trapezoid_pass ==
  /\ st.pc = "iterate"
  /\ \E r \in {_trapezoid_once(mb.bf[st.bf], st.computed_velocity)} :
       /\ mb' = [mb EXCEPT !.bf[st.bf] = r.bf]
       /\ st' = [st EXCEPT !.computed_velocity = r.computed_velocity,
                           !.i = (st.i + 1) % 256,
                           !.pc = IF _trapezoid_again(r.bf, r.computed_velocity)
                                  THEN "iterate" ELSE "fit"]
  /\ ev' = [NoEv EXCEPT !.op = "_calculate_trapezoid_pass"]
  /\ UNCHANGED <<mm, mr, cm>>

\* the code after the loop
_calculate_trapezoid_fit ==
  /\ st.pc = "fit"
  /\ mb' = [mb EXCEPT !.bf[st.bf] =
              _trapezoid_asymmetric([mb.bf[st.bf] EXCEPT
                                       !.cruise_velocity = st.computed_velocity])]
  /\ st' = [st EXCEPT !.pc = "done"]
  /\ ev' = [NoEv EXCEPT !.op = "_calculate_trapezoid_fit"]
  /\ UNCHANGED <<mm, mr, cm>>

TrapNext ==
  \/ _calculate_trapezoid_pass
  \/ _calculate_trapezoid_fit

TrapSpec == TrapInit /\ [][TrapNext]_vars

(***************************************************************************)
(* The pool counter under preemption.  mp_queue_command runs in the        *)
(* foreground and mp_exec_move in the interrupt.  The statement            *)
(* mb.buffers_available-- of _get_write_buffer is a load of the counter    *)
(* into a register, a decrement and a store, and the interrupt can arrive  *)
(* between the load and the store: _get_write_buffer is taken in two       *)
(* steps, up to the load (st.buffers_available is the register) and from   *)
(* the store on, with the rest of mp_queue_command.                        *)
(***************************************************************************)
mp_queue_command_load ==
  /\ st.pc = "idle"
  /\ mm.lineindex < MaxLineIndex
  /\ mb.bf[mb.w].buffer_state = MP_BUFFER_EMPTY
  /\ mb' = [mb EXCEPT !.bf[mb.w] = [ZeroBuf EXCEPT !.buffer_state = MP_BUFFER_LOADING,
                                                    !.lineindex = mm.lineindex + 1]]
  /\ mm' = [mm EXCEPT !.lineindex = mm.lineindex + 1]
  /\ st' = [st EXCEPT !.pc = "store", !.bf = mb.w,
                      !.buffers_available = mb.buffers_available]
  /\ ev' = [NoEv EXCEPT !.op = "_get_write_buffer", !.buf = mb.w,
                        !.trans = _state_changes(mb.bf, mb'.bf)]
  /\ UNCHANGED <<mr, cm>>

mp_queue_command_store(cm_exec, i, f) ==
  /\ st.pc = "store"
  /\ mb' = _queue_write_buffer(
             [mb EXCEPT !.buffers_available = (st.buffers_available - 1) % 256,
                        !.w = _get_next_buffer(mb.w),
                        !.bf[st.bf].move_type = MOVE_TYPE_COMMAND,
                        !.bf[st.bf].bf_func = "_exec_command",
                        !.bf[st.bf].cm_func = cm_exec,
                        !.bf[st.bf].int_val = i,
                        !.bf[st.bf].dbl_val = f],
             MOVE_TYPE_COMMAND)
  /\ st' = [st EXCEPT !.pc = "idle", !.bf = NULL, !.buffers_available = 0]
  /\ ev' = [NoEv EXCEPT !.op = "mp_queue_command", !.status = TG_OK, !.buf = st.bf,
                        !.lineindex = mb.bf[st.bf].lineindex,
                        !.trans = _state_changes(mb.bf, mb'.bf)]
  /\ UNCHANGED <<mm, mr, cm>>

PreemptNext ==
  \/ mp_queue_command_load
  \/ \E i \in {1} : mp_queue_command_store("cm_exec", i, 0)
  \/ \E move \in Moves : st.pc = "idle" /\ mp_aline(move[1], move[2], PATH_CONTINUOUS)
  \/ mp_exec_move

PreemptSpec == Init /\ [][PreemptNext]_vars

(***************************************************************************)
(* The buffer pool on its own: the four pool operations as single steps of *)
(* a producer, which holds the slot it is loading between                  *)
(* _get_write_buffer and _queue_write_buffer, and of a consumer (the       *)
(* executor runs from an interrupt and may see the slot being loaded).     *)
(***************************************************************************)
MoveTypes == {MOVE_TYPE_ALINE, MOVE_TYPE_DWELL, MOVE_TYPE_COMMAND}

pool_get_write_buffer ==
  /\ mb.q = mb.w
  /\ mm.lineindex < MaxLineIndex \/ mb.bf[mb.w].buffer_state # MP_BUFFER_EMPTY
  /\ \E g \in {_get_write_buffer(mb, mm)} :
       /\ mb' = g.mb
       /\ mm' = g.mm
       /\ ev' = [NoEv EXCEPT !.op = "_get_write_buffer", !.buf = g.ret,
                             !.trans = _state_changes(mb.bf, g.mb.bf)]
  /\ UNCHANGED <<mr, cm, st>>

pool_queue_write_buffer(move_type) ==
  /\ mb.bf[mb.q].buffer_state = MP_BUFFER_LOADING
  /\ mb' = _queue_write_buffer(mb, move_type)
  /\ ev' = [NoEv EXCEPT !.op = "_queue_write_buffer", !.buf = mb.q,
                        !.trans = _state_changes(mb.bf, mb'.bf)]
  /\ UNCHANGED <<mm, mr, cm, st>>

pool_get_run_buffer ==
  \E g \in {_get_run_buffer(mb)} :
    /\ mb' = g.mb
    /\ ev' = [NoEv EXCEPT !.op = "_get_run_buffer", !.buf = g.ret,
                          !.trans = _state_changes(mb.bf, g.mb.bf)]
    /\ UNCHANGED <<mm, mr, cm, st>>

\* the callbacks free the buffer that _get_run_buffer handed to them
pool_free_run_buffer ==
  /\ mb.bf[mb.r].buffer_state = MP_BUFFER_RUNNING
  /\ \E fr \in {_free_run_buffer(mb)} :
       /\ mb' = fr.mb
       /\ cm' = IF fr.cycle_end THEN cm_cycle_end(cm) ELSE cm
       /\ ev' = [NoEv EXCEPT !.op = "_free_run_buffer", !.buf = mb.r, !.freed = 1,
                             !.cycle_end = IF fr.cycle_end THEN 1 ELSE 0,
                             !.trans = _state_changes(mb.bf, fr.mb.bf)]
  /\ UNCHANGED <<mm, mr, st>>

PoolNext ==
  \/ pool_get_write_buffer
  \/ \E move_type \in MoveTypes : pool_queue_write_buffer(move_type)
  \/ pool_get_run_buffer
  \/ pool_free_run_buffer

PoolSpec == Init /\ [][PoolNext]_vars

(***************************************************************************)
(* Properties                                                              *)
(***************************************************************************)
\* the buffer states of a committed block
Committed == {MP_BUFFER_QUEUED, MP_BUFFER_PENDING, MP_BUFFER_RUNNING}

\* the slots of the pool b that are in the buffer state s
SlotsIn(b, s) == {i \in Slots : b.bf[i].buffer_state = s}

\* C1: in every reachable state buffers_available equals the number of slots
\* whose state is EMPTY; once every acquired block has been freed it is back
\* at the pool size
C1_AvailableCountsEmpty ==
  /\ mb.buffers_available = Cardinality(SlotsIn(mb, MP_BUFFER_EMPTY))
  /\ (\A i \in Slots : mb.bf[i].buffer_state = MP_BUFFER_EMPTY)
       => mb.buffers_available = PLANNER_BUFFER_POOL_SIZE

\* every block acquired (MaxLineIndex of them) has been freed, the last one
\* just now, in a run with a feedhold replan
C1_Witness ==
  /\ ev.op = "mp_exec_move" /\ ev.freed = 1
  /\ st.holds = MaxHolds /\ mm.lineindex = MaxLineIndex
  /\ mb.buffers_available = PLANNER_BUFFER_POOL_SIZE

\* mp_exec_move has just dispatched the block in slot ev.buf
C2_Dispatched == ev.op = "mp_exec_move" /\ ev.buf # NULL

\* mp_exec_move has just run the callback of a dwell or of a queued command
C2_CallbackRan == ev.op = "mp_exec_move" /\ ev.func \in {"_exec_dwell", "_exec_command"}

\* the block dispatched is the oldest in the queue and no later block has
\* been started (a block still to be started is NEW, or SKIP when it was
\* planned too short to run); behind a dwell or command every block is
\* strictly later
C2_OldestFirst ==
  C2_Dispatched =>
    \A i \in Slots \ {ev.buf} :
      mb.bf[i].buffer_state \in Committed =>
        /\ mb.bf[i].lineindex >= ev.lineindex
        /\ mb.bf[i].buffer_state # MP_BUFFER_RUNNING
        /\ mb.bf[i].move_state \in {MOVE_STATE_NEW, MOVE_STATE_SKIP}
        /\ C2_CallbackRan => mb.bf[i].lineindex > ev.lineindex

\* the runtime has no segment of an earlier move left to run
C2_RuntimeDone ==
  \/ mr.move_state = MOVE_STATE_OFF
  \/ /\ mr.move_state = MOVE_STATE_TAIL
     /\ mr.section_state = MOVE_STATE_NEW
     /\ mr.tail_length < EPSILON

\* the block dispatched is the block dispatched before it, run again, or
\* the block committed next after that one: no committed block is left out
C2_NoneLost == C2_Dispatched => ev.lineindex \in {ev.prev, ev.prev + 1}

\* C2, over the executions without a queue flush (a flush drops committed
\* blocks): blocks are dispatched in the order of their commits, none left
\* out; the callback of a dwell or command runs only when every earlier
\* block has finished and been freed and before any later block is started
C2_DispatchInCommitOrder ==
  st.flushes = 0 =>
    /\ C2_NoneLost
    /\ C2_OldestFirst
    /\ C2_CallbackRan => C2_RuntimeDone

\* the buffer state changes of the lifecycle, as pairs <<from, to>>
Chain ==
  { <<MP_BUFFER_EMPTY, MP_BUFFER_LOADING>>, <<MP_BUFFER_LOADING, MP_BUFFER_QUEUED>>,
    <<MP_BUFFER_QUEUED, MP_BUFFER_PENDING>>, <<MP_BUFFER_PENDING, MP_BUFFER_RUNNING>>,
    <<MP_BUFFER_RUNNING, MP_BUFFER_EMPTY>> }

\* C3 as stated: but for a queue flush, every change of a slot's buffer state
\* follows EMPTY -> LOADING -> QUEUED -> PENDING -> RUNNING -> EMPTY
C3_LifecycleChain == (ev.trans \cup ev.copied) \subseteq Chain

\* C3 amended: but for a queue flush and for the buffer copies of a feedhold
\* replan of case 2, every change of a slot's buffer state follows the chain
\* or takes a QUEUED slot at the run cursor directly to RUNNING; no handler
\* but the replan of case 2 copies a buffer
C3_LifecycleWithDirectRun ==
  /\ ev.trans \subseteq (Chain \cup {<<MP_BUFFER_QUEUED, MP_BUFFER_RUNNING>>})
  /\ ev.copied # {} => ev.op = "mp_plan_hold_callback" /\ ev.func = "case2"

\* a feedhold replan of case 2 has promoted the QUEUED slot at the run
\* cursor directly and then copied the QUEUED slot after it over it
C3_Witness ==
  /\ ev.op = "mp_plan_hold_callback" /\ ev.func = "case2"
  /\ <<MP_BUFFER_QUEUED, MP_BUFFER_RUNNING>> \in ev.trans
  /\ <<MP_BUFFER_RUNNING, MP_BUFFER_QUEUED>> \in ev.copied

C5_Acquired(b, m, g) ==
  /\ g.ret = b.w
  /\ g.mb.bf[b.w] = [ZeroBuf EXCEPT !.buffer_state = MP_BUFFER_LOADING,
                                    !.lineindex = m.lineindex + 1]
  /\ g.mm = [m EXCEPT !.lineindex = m.lineindex + 1]
  /\ g.mb.w = (b.w + 1) % PLANNER_BUFFER_POOL_SIZE
  /\ g.mb.buffers_available = b.buffers_available - 1
  /\ g.mb.q = b.q
  /\ g.mb.r = b.r
  /\ \A i \in Slots \ {b.w} : g.mb.bf[i] = b.bf[i]

\* C5: _get_write_buffer on an EMPTY slot at the write cursor returns that
\* slot zeroed, LOADING and carrying the incremented line index, advances
\* the write cursor by one slot, decrements buffers_available by one and
\* changes no other slot
C5_WriteBufferAcquired ==
  mb.bf[mb.w].buffer_state = MP_BUFFER_EMPTY
    => C5_Acquired(mb, mm, _get_write_buffer(mb, mm))

\* a producer has just committed a block and the next slot is EMPTY
C5_Witness ==
  /\ ev.op \in {"mp_aline", "mp_dwell", "mp_queue_command"}
  /\ ev.status = TG_OK /\ ev.buf # NULL
  /\ mb.bf[ev.buf].lineindex = mm.lineindex
  /\ mb.w = _get_next_buffer(ev.buf)
  /\ mb.bf[mb.w].buffer_state = MP_BUFFER_EMPTY

\* C6: when the slot at the write cursor is not EMPTY, _get_write_buffer
\* returns NULL and changes nothing; mp_aline (called with a move that is
\* not of zero length) and mp_dwell then return TG_BUFFER_FULL_FATAL and
\* mp_queue_command returns silently, and none of them commits a block or
\* moves the planning position
C6_QueueFull ==
  [][ mb.bf[mb.w].buffer_state # MP_BUFFER_EMPTY =>
        /\ _get_write_buffer(mb, mm) = [ mb |-> mb, mm |-> mm, ret |-> NULL ]
        /\ ev'.op \in {"mp_aline", "mp_dwell", "mp_queue_command"}
             => mb' = mb /\ mm' = mm
        /\ ev'.op = "mp_dwell" => ev'.status = TG_BUFFER_FULL_FATAL
        /\ ev'.op = "mp_queue_command" => ev'.status = TG_NOOP
        /\ \A move \in Moves, path_control \in PathControls :
             ( /\ mp_aline(move[1], move[2], path_control)
               /\ move[2] >= EPSILON
               /\ fabs(move[1] - mm.position) >= EPSILON )
               => ev'.status = TG_BUFFER_FULL_FATAL
    ]_vars

\* mp_aline has just failed on a full queue
C6_Witness ==
  /\ ev.op = "mp_aline" /\ ev.status = TG_BUFFER_FULL_FATAL
  /\ mb.buffers_available = 0
  /\ mb.bf[mb.w].buffer_state # MP_BUFFER_EMPTY

\* what C7 says of a call of _get_run_buffer on the pool b that returns g
C7_Acquired(b, g) ==
  /\ b.bf[b.r].buffer_state \in {MP_BUFFER_QUEUED, MP_BUFFER_PENDING}
       => /\ g.ret = b.r
          /\ g.mb = [b EXCEPT !.bf[b.r].buffer_state = MP_BUFFER_RUNNING]
  /\ b.bf[b.r].buffer_state = MP_BUFFER_RUNNING => g.ret = b.r /\ g.mb = b
  /\ b.bf[b.r].buffer_state \in {MP_BUFFER_EMPTY, MP_BUFFER_LOADING}
       => g.ret = NULL /\ g.mb = b
  /\ g.mb # b <=> b.bf[b.r].buffer_state \in {MP_BUFFER_QUEUED, MP_BUFFER_PENDING}
  /\ _get_run_buffer(g.mb) = g

\* C7: _get_run_buffer promotes the slot at the run cursor to RUNNING and
\* returns it iff it is QUEUED or PENDING, returns it unchanged when it is
\* RUNNING, returns NULL and changes nothing when it is EMPTY or LOADING,
\* and a second call returns the same slot and leaves the same pool
C7_RunBufferAcquired == C7_Acquired(mb, _get_run_buffer(mb))

\* _get_run_buffer has just returned NULL on the slot being loaded
C7_Witness ==
  /\ ev.op = "_get_run_buffer" /\ ev.buf = NULL
  /\ mb.bf[mb.r].buffer_state = MP_BUFFER_LOADING

\* what C8 says of a call of _free_run_buffer on the pool b that returns fr
C8_Freed(b, fr) ==
  /\ fr.mb.bf[b.r] = [ZeroBuf EXCEPT !.buffer_state = MP_BUFFER_EMPTY]
  /\ fr.mb.r = (b.r + 1) % PLANNER_BUFFER_POOL_SIZE
  /\ fr.mb.bf[fr.mb.r] =
       [b.bf[fr.mb.r] EXCEPT !.buffer_state =
          IF b.bf[fr.mb.r].buffer_state = MP_BUFFER_QUEUED
          THEN MP_BUFFER_PENDING
          ELSE b.bf[fr.mb.r].buffer_state]
  /\ \A i \in Slots \ {b.r, fr.mb.r} : fr.mb.bf[i] = b.bf[i]
  /\ fr.mb.buffers_available = b.buffers_available + 1
  /\ fr.mb.w = b.w
  /\ fr.mb.q = b.q
  /\ fr.cycle_end <=> \A i \in Slots : fr.mb.bf[i].buffer_state = MP_BUFFER_EMPTY

\* C8: _free_run_buffer zeroes the slot at the run cursor and sets it EMPTY,
\* advances the run cursor by one slot, makes the new head PENDING iff it
\* was QUEUED, increments buffers_available by one, and ends the motion
\* cycle iff every slot is EMPTY after the free
C8_RunBufferFreed ==
  /\ mb.bf[mb.r].buffer_state = MP_BUFFER_RUNNING => C8_Freed(mb, _free_run_buffer(mb))
  /\ ev.freed = 1 =>
       /\ ev.cycle_end = 1 <=> \A i \in Slots : mb.bf[i].buffer_state = MP_BUFFER_EMPTY
       /\ ev.cycle_end = 1 => cm.cycle_state = CYCLE_OFF

\* a block has just been freed, the block behind it was pended, and it is
\* the run buffer that the next free will clear
C8_Witness ==
  /\ ev.op = "mp_exec_move" /\ ev.freed = 1 /\ ev.cycle_end = 0
  /\ mb.bf[mb.r].buffer_state = MP_BUFFER_PENDING
  /\ mb.bf[_get_next_buffer(mb.r)].buffer_state = MP_BUFFER_QUEUED

\* C9: mp_aline called with a move time below EPSILON, or with a target
\* less than EPSILON from the planning position, returns
\* TG_ZERO_LENGTH_MOVE and changes nothing: no buffer is acquired, no
\* queued block is replanned and the planning position stays
C9_ZeroLengthMove ==
  [][ \A move \in Moves, path_control \in PathControls :
        ( /\ mp_aline(move[1], move[2], path_control)
          /\ move[2] < EPSILON \/ fabs(move[1] - mm.position) < EPSILON )
          => /\ ev'.status = TG_ZERO_LENGTH_MOVE
             /\ mb' = mb
             /\ mm' = mm
             /\ mr' = mr
             /\ cm' = cm
    ]_vars

\* mp_aline has just rejected a move while a replannable block is queued
C9_Witness ==
  /\ ev.op = "mp_aline" /\ ev.status = TG_ZERO_LENGTH_MOVE
  /\ \E i \in Slots : mb.bf[i].buffer_state = MP_BUFFER_QUEUED /\ mb.bf[i].replannable

\* C10: every call of _exec_aline from mp_exec_move that returns TG_EAGAIN
\* or TG_OK has made exactly one call of st_prep_line
C10_OneSegmentPerCall ==
  ( /\ ev.op = "mp_exec_move"
    /\ ev.func = "_exec_aline"
    /\ ev.status \in {TG_OK, TG_EAGAIN} )
    => ev.prep_line = 1

\* C11 as stated: when _exec_aline returns TG_OK and frees the block, the
\* runtime position equals the block's endpoint, whatever section the block
\* ended in
C11_Completed ==
  /\ ev.op = "mp_exec_move" /\ ev.func = "_exec_aline"
  /\ ev.status = TG_OK /\ ev.freed = 1

C11_PositionAtEndpoint == C11_Completed => mr.position = mr.endpoint

\* C11 amended: the runtime position equals the endpoint when the block
\* completes with the last segment of its tail, run under MOTION_RUN: that
\* segment alone is given the endpoint as its target
C11_PositionAtEndpointAfterTail ==
  ( /\ C11_Completed
    /\ ev.section = MOVE_STATE_TAIL /\ ev.prep_line = 1
    /\ ev.motion = MOTION_RUN )
    => mr.position = mr.endpoint

\* a block with a head, a body and a tail has completed at its endpoint
C11_Witness ==
  /\ C11_Completed
  /\ ev.section = MOVE_STATE_TAIL /\ ev.prep_line = 1 /\ ev.motion = MOTION_RUN
  /\ mr.head_length > 0 /\ mr.body_length > 0 /\ mr.tail_length > 0
  /\ mr.position = mr.endpoint /\ mr.endpoint # 0

\* the change of the feedhold state made by the step
C12_Change == <<cm.hold_state, cm'.hold_state>>

\* the step is a call of _exec_aline from mp_exec_move
C12_Executor == ev'.op = "mp_exec_move" /\ ev'.func = "_exec_aline"

\* C12: the feedhold state changes only by OFF -> SYNC, SYNC -> PLAN (made
\* by _exec_aline), PLAN -> DECEL (made by mp_plan_hold_callback),
\* DECEL -> HOLD (made by _exec_aline) and HOLD -> OFF (made by
\* mp_end_hold_callback); no state is skipped or re-entered out of order
C12_FeedholdTransitions ==
  [][ cm'.hold_state # cm.hold_state =>
        \/ C12_Change = <<FEEDHOLD_OFF, FEEDHOLD_SYNC>> /\ ev'.op = "cm_feedhold"
        \/ C12_Change = <<FEEDHOLD_SYNC, FEEDHOLD_PLAN>> /\ C12_Executor
        \/ C12_Change = <<FEEDHOLD_PLAN, FEEDHOLD_DECEL>> /\ ev'.op = "mp_plan_hold_callback"
        \/ C12_Change = <<FEEDHOLD_DECEL, FEEDHOLD_HOLD>> /\ C12_Executor
        \/ C12_Change = <<FEEDHOLD_HOLD, FEEDHOLD_OFF>> /\ ev'.op = "mp_end_hold_callback"
    ]_vars

\* a feedhold has gone through all its states: mp_end_hold_callback has
\* just released the hold that was requested
C12_Witness ==
  /\ ev.op = "mp_end_hold_callback"
  /\ cm.hold_state = FEEDHOLD_OFF
  /\ st.holds > 0

\* C13: whenever the feedhold state changes from DECEL to HOLD, the section
\* the executor has just completed ended with exit_velocity 0
C13_HoldAtZeroVelocity ==
  [][ (cm.hold_state = FEEDHOLD_DECEL /\ cm'.hold_state = FEEDHOLD_HOLD)
        => mr'.exit_velocity = 0 ]_vars

\* C14: the first call of _exec_aline that hands a segment to the stepper
\* layer while the feedhold state is SYNC leaves the state PLAN, so at most
\* one segment is run between SYNC and PLAN
C14_SyncLastsOneSegment ==
  [][ ( /\ cm.hold_state = FEEDHOLD_SYNC
        /\ ev'.op = "mp_exec_move" /\ ev'.func = "_exec_aline"
        /\ ev'.prep_line > 0 )
        => (ev'.prep_line = 1 /\ cm'.hold_state = FEEDHOLD_PLAN) ]_vars

\* the segment run after the hold request was not the last of its block,
\* and the state is PLAN
C14_Witness ==
  /\ ev.op = "mp_exec_move" /\ ev.func = "_exec_aline"
  /\ ev.prep_line = 1 /\ ev.status = TG_EAGAIN
  /\ cm.hold_state = FEEDHOLD_PLAN

\* C15: while the feedhold state is HOLD no call of mp_exec_move hands a
\* segment or a dwell to the stepper layer, runs a command callback or frees
\* a block, whatever the type of the block at the run cursor
C15_HoldWaits ==
  [][ (cm.hold_state = FEEDHOLD_HOLD /\ ev'.op = "mp_exec_move")
        => /\ ev'.prep_line = 0
           /\ ev'.prep_dwell = 0
           /\ ev'.callback = 0
           /\ ev'.freed = 0 ]_vars

\* what C16 says of a call of mp_end_hold_callback on the pool b and the
\* canonical machine c that returns x
C16_Ended(b, c, x) ==
  IF c.hold_state = FEEDHOLD_HOLD /\ c.cycle_start_flag
  THEN /\ ~x.cm.cycle_start_flag
       /\ x.cm.hold_state = FEEDHOLD_OFF
       /\ x.cm.cycle_state = c.cycle_state
       /\ IF \E i \in Slots : i = b.r /\ b.bf[i].buffer_state \in Committed
          THEN x.cm.motion_state = MOTION_RUN /\ x.request_exec = 1
          ELSE x.cm.motion_state = MOTION_STOP /\ x.request_exec = 0
  ELSE x.mb = b /\ x.cm = c /\ x.request_exec = 0

\* a cycle start requested after the hold request and before HOLD is
\* reached is not lost by the step
C16_StaysPending ==
  (cm.cycle_start_flag /\ cm.hold_state \in {FEEDHOLD_SYNC, FEEDHOLD_PLAN, FEEDHOLD_DECEL})
    => cm'.cycle_start_flag

\* C16: mp_end_hold_callback changes state only when the feedhold state is
\* HOLD and the cycle start flag is set; it then clears the flag, sets the
\* feedhold state OFF and sets the motion state RUN and requests an executor
\* run if there is a run buffer, or sets the motion state STOP if there is
\* none; in every other state it changes nothing, and a cycle start
\* requested before HOLD stays pending until HOLD is reached
C16_EndHold ==
  /\ [](C16_Ended(mb, cm, _end_hold(mb, cm)))
  /\ [][C16_StaysPending]_vars

\* a hold has been ended with a block to run: the motion state is RUN and
\* the executor has been requested
C16_Witness ==
  /\ ev.op = "mp_end_hold_callback" /\ ev.status = TG_OK
  /\ ev.request_exec = 1
  /\ cm.motion_state = MOTION_RUN /\ ~cm.cycle_start_flag

\* the k-th slot of the pool b counted from the run cursor
C17_Slot(b, k) == (b.r + k) % PLANNER_BUFFER_POOL_SIZE

\* the offsets, from the offset from on, of the committed blocks that follow
\* the run cursor without a gap
C17_Offsets(b, from) ==
  { k \in from .. (PLANNER_BUFFER_POOL_SIZE - 1) :
      \A j \in from .. k : b.bf[C17_Slot(b, j)].buffer_state \in Committed }

\* the pending queue of the pool b from the offset from on: in queue order,
\* each block's line index, move type, target and length
C17_Pending(b, from) ==
  [ k \in 1 .. Cardinality(C17_Offsets(b, from)) |->
      [ lineindex |-> b.bf[C17_Slot(b, from + k - 1)].lineindex,
        move_type |-> b.bf[C17_Slot(b, from + k - 1)].move_type,
        target |-> b.bf[C17_Slot(b, from + k - 1)].target,
        length |-> b.bf[C17_Slot(b, from + k - 1)].length ] ]

\* the offset of the first pending block: the block at the run cursor when
\* the runtime is idle, the block after it when the runtime runs a move
C17_First == IF mr.move_state = MOVE_STATE_OFF THEN 0 ELSE 1

\* C17: a feedhold followed by cycle start leaves the pending queue
\* unchanged in content and order; the replan of the hold, the one step of a
\* feedhold that writes blocks it does not run, leaves the blocks queued
\* behind the running block the same blocks, in the same order, with the
\* same move types, targets and lengths
C17_QueueUnchanged ==
  [][ (ev'.op = "mp_plan_hold_callback" /\ ev'.status = TG_OK)
        => C17_Pending(mb', C17_First) = C17_Pending(mb, C17_First) ]_vars

\* C18: mp_flush_planner returns the pool to its initial state (every slot
\* EMPTY, the write, queue and run cursors equal, buffers_available equal to
\* the pool size), sets the motion state to STOP and changes no field of the
\* runtime singleton
C18_FlushFrame ==
  [][ ev'.op = "mp_flush_planner"
        => /\ \A i \in Slots : mb'.bf[i].buffer_state = MP_BUFFER_EMPTY
           /\ mb'.w = mb'.q /\ mb'.q = mb'.r
           /\ mb'.buffers_available = PLANNER_BUFFER_POOL_SIZE
           /\ \A i \in Slots : mb'.bf[i] = ZeroBuf
           /\ cm'.motion_state = MOTION_STOP
           /\ mr' = mr ]_vars

\* a flush has just emptied the pool while the runtime still holds a latched
\* move that has not reached its endpoint
C18_Witness ==
  /\ ev.op = "mp_flush_planner"
  /\ mb.buffers_available = PLANNER_BUFFER_POOL_SIZE
  /\ cm.motion_state = MOTION_STOP
  /\ mr.move_state \in {MOVE_STATE_HEAD, MOVE_STATE_BODY, MOVE_STATE_TAIL}
  /\ mr.position # mr.endpoint

\* the executor step latches the block in slot ev'.buf into the runtime
C19_Latches ==
  /\ ev'.op = "mp_exec_move" /\ ev'.func = "_exec_aline"
  /\ mr.move_state = MOVE_STATE_OFF
  /\ mb.bf[ev'.buf].move_state # MOVE_STATE_OFF
  /\ mb.bf[ev'.buf].length >= EPSILON
  /\ cm.hold_state # FEEDHOLD_HOLD

\* C19: under any interleaving of the foreground planner with the executor
\* interrupt, outside a feedhold replan, the planner never writes a velocity
\* or length field of a block in RUNNING state, and the executor never
\* latches a block whose trapezoid the planner is in the middle of rewriting
C19_NoRace ==
  [][ /\ (ev'.op = "_plan_block_list" /\ ev'.buf # NULL)
          => mb.bf[ev'.buf].buffer_state # MP_BUFFER_RUNNING
      /\ C19_Latches => ~(st.pc = "trapezoid" /\ st.bp = ev'.buf) ]_vars

\* C20: every executor invocation writes planning-block fields only in the
\* slot at the run cursor; no field of any other slot, in particular of the
\* slot following the run slot, is changed by the executor
C20_OnlyRunSlot ==
  [][ ev'.op = "mp_exec_move"
        => \A i \in Slots \ {mb.r} : mb'.bf[i] = mb.bf[i] ]_vars

\* C20 as the code has it: outside the slot at the run cursor an executor
\* invocation changes at most two fields, both in the slot that follows the
\* run slot: replannable, which it clears, and buffer_state, which it moves
\* from QUEUED to PENDING; every other field of every other slot is left alone
C20_RunSlotAndMarks ==
  [][ ev'.op = "mp_exec_move"
        => \A i \in Slots \ {mb.r} :
             /\ [mb'.bf[i] EXCEPT !.replannable = mb.bf[i].replannable,
                                  !.buffer_state = mb.bf[i].buffer_state] = mb.bf[i]
             /\ mb'.bf[i].replannable # mb.bf[i].replannable
                  => i = _get_next_buffer(mb.r) /\ ~mb'.bf[i].replannable
             /\ mb'.bf[i].buffer_state # mb.bf[i].buffer_state
                  => /\ i = _get_next_buffer(mb.r)
                     /\ mb.bf[i].buffer_state = MP_BUFFER_QUEUED
                     /\ mb'.bf[i].buffer_state = MP_BUFFER_PENDING ]_vars

\* the executor has just finished a line and freed its slot with two more
\* blocks queued: the block now at the run cursor was marked PENDING and not
\* replannable, the block after it is still QUEUED
C20_Witness ==
  /\ ev.op = "mp_exec_move" /\ ev.func = "_exec_aline" /\ ev.status = TG_OK
  /\ ev.freed = 1
  /\ <<MP_BUFFER_QUEUED, MP_BUFFER_PENDING>> \in ev.trans
  /\ mb.bf[mb.r].buffer_state = MP_BUFFER_PENDING
  /\ mb.bf[mb.r].move_type = MOVE_TYPE_ALINE
  /\ ~mb.bf[mb.r].replannable
  /\ mb.bf[_get_next_buffer(mb.r)].buffer_state = MP_BUFFER_QUEUED

\* the foreground functions the claim names
C21_Foreground ==
  {"mp_plan_hold_callback", "mp_end_hold_callback", "mp_set_axes_position",
   "mp_set_axis_position", "mp_set_plan_lineindex", "mp_zero_segment_velocity",
   "mp_flush_planner", "mp_aline"}

\* C21: every field of the runtime singleton has exactly one writer, the
\* executor; no function that runs in the foreground writes a runtime field
C21_ExecutorOnly ==
  [][ ev'.op \in C21_Foreground => mr' = mr ]_vars

\* C21 as the code has it: mp_aline, mp_flush_planner and
\* mp_end_hold_callback write no runtime field; mp_plan_hold_callback writes
\* move_state, section_state, tail_length, cruise_velocity and exit_velocity;
\* mp_set_axes_position and mp_set_axis_position write position;
\* mp_set_plan_lineindex writes lineindex; mp_zero_segment_velocity writes
\* segment_velocity; none of them writes any other runtime field
C21_ForegroundWrites ==
  [][ /\ ev'.op \in {"mp_aline", "mp_flush_planner", "mp_end_hold_callback"} => mr' = mr
      /\ ev'.op = "mp_plan_hold_callback"
           => [mr' EXCEPT !.move_state = mr.move_state,
                          !.section_state = mr.section_state,
                          !.tail_length = mr.tail_length,
                          !.cruise_velocity = mr.cruise_velocity,
                          !.exit_velocity = mr.exit_velocity] = mr
      /\ ev'.op \in {"mp_set_axes_position", "mp_set_axis_position"}
           => [mr' EXCEPT !.position = mr.position] = mr
      /\ ev'.op = "mp_set_plan_lineindex" => [mr' EXCEPT !.lineindex = mr.lineindex] = mr
      /\ ev'.op = "mp_zero_segment_velocity"
           => [mr' EXCEPT !.segment_velocity = mr.segment_velocity] = mr ]_vars

\* the position has just been set from the foreground after a move has run:
\* the runtime position is the one set and differs from the endpoint the
\* executor left
C21_Witness ==
  /\ ev.op = "mp_set_axes_position"
  /\ mr.lineindex > 0
  /\ mr.position = mm.position
  /\ mr.position # mr.endpoint

\* C22: after every return of _plan_block_list, called from mp_aline or from
\* a feedhold replan, the last block of the queue (the block passed to the
\* planner) has exit_velocity 0
C22_PlanEndsAtRest ==
  /\ (ev.op = "mp_aline" /\ ev.status = TG_OK) => mb.bf[ev.buf].exit_velocity = 0
  /\ (ev.op = "mp_plan_hold_callback" /\ ev.status = TG_OK)
       => mb.bf[_get_last_buffer(mb).ret].exit_velocity = 0

\* a feedhold replan has just planned a list of more than one block: its last
\* block is entered at speed and ends at rest
C22_Witness ==
  /\ ev.op = "mp_plan_hold_callback" /\ ev.status = TG_OK
  /\ _get_last_buffer(mb).ret # mb.r
  /\ mb.bf[_get_last_buffer(mb).ret].entry_velocity > 0
  /\ mb.bf[_get_last_buffer(mb).ret].exit_velocity = 0

\* C23: for every aline block in QUEUED, PENDING or RUNNING state after the
\* planner has run, head_length + body_length + tail_length equals length
\* within the fit tolerance, the short (degraded, no-fit) cases included
C23_SectionsFillLength ==
  \A i \in Slots :
    (mb.bf[i].buffer_state \in Committed /\ mb.bf[i].move_type = MOVE_TYPE_ALINE)
      => fabs(mb.bf[i].head_length + mb.bf[i].body_length + mb.bf[i].tail_length
                - mb.bf[i].length) <= TRAPEZOID_LENGTH_FIT_TOLERANCE

\* C23 as the code has it: the three section lengths add up to the length of
\* every committed aline block except a block the trapezoid generator has
\* marked MOVE_STATE_SKIP (too short to run as one segment), which may have
\* all three lengths 0
C23_SectionsFillLengthUnlessSkipped ==
  \A i \in Slots :
    (/\ mb.bf[i].buffer_state \in Committed
     /\ mb.bf[i].move_type = MOVE_TYPE_ALINE
     /\ mb.bf[i].move_state # MOVE_STATE_SKIP)
      => fabs(mb.bf[i].head_length + mb.bf[i].body_length + mb.bf[i].tail_length
                - mb.bf[i].length) <= TRAPEZOID_LENGTH_FIT_TOLERANCE

\* a committed block planned by a short case: it is rate limited (its cruise
\* velocity is below the requested one), has no body, and its head and tail
\* fill an odd length
C23_Witness ==
  \E i \in Slots :
    /\ mb.bf[i].buffer_state \in Committed
    /\ mb.bf[i].move_type = MOVE_TYPE_ALINE
    /\ mb.bf[i].move_state # MOVE_STATE_SKIP
    /\ mb.bf[i].cruise_velocity < mb.bf[i].cruise_vmax
    /\ mb.bf[i].body_length = 0
    /\ mb.bf[i].head_length > 0 /\ mb.bf[i].tail_length > 0
    /\ mb.bf[i].length % 2 = 1
    /\ mb.bf[i].head_length + mb.bf[i].tail_length = mb.bf[i].length

\* C24: for every block after the planner has run, entry_velocity and
\* exit_velocity are at most cruise_velocity, the three velocities are
\* nonnegative, and each is at most its maximum (entry_vmax, cruise_vmax,
\* exit_vmax)
C24_VelocitiesOrdered ==
  \A i \in Slots :
    mb.bf[i].buffer_state \in Committed
      => /\ mb.bf[i].entry_velocity <= mb.bf[i].cruise_velocity
         /\ mb.bf[i].exit_velocity <= mb.bf[i].cruise_velocity
         /\ mb.bf[i].entry_velocity >= 0
         /\ mb.bf[i].cruise_velocity >= 0
         /\ mb.bf[i].exit_velocity >= 0
         /\ mb.bf[i].entry_velocity <= mb.bf[i].entry_vmax
         /\ mb.bf[i].cruise_velocity <= mb.bf[i].cruise_vmax
         /\ mb.bf[i].exit_velocity <= mb.bf[i].exit_vmax

\* C25: for every adjacent pair of queued blocks after the planner has run,
\* the exit velocity of the first is at most the maximum entry velocity of the
\* second and at most the braking velocity of the second
C25_ExitWithinNext ==
  \A i \in Slots :
    /\ mb.bf[i].buffer_state = MP_BUFFER_QUEUED
    /\ mb.bf[_get_next_buffer(i)].buffer_state = MP_BUFFER_QUEUED
    /\ _get_next_buffer(i) # mb.r
    => /\ mb.bf[i].exit_velocity <= mb.bf[_get_next_buffer(i)].entry_vmax
       /\ mb.bf[i].exit_velocity <= mb.bf[_get_next_buffer(i)].braking_velocity

\* a queued block that could leave faster leaves at exactly the maximum entry
\* velocity of the queued block after it
C25_Witness ==
  \E i \in Slots :
    /\ mb.bf[i].buffer_state = MP_BUFFER_QUEUED
    /\ mb.bf[_get_next_buffer(i)].buffer_state = MP_BUFFER_QUEUED
    /\ _get_next_buffer(i) # mb.r
    /\ mb.bf[i].move_type = MOVE_TYPE_ALINE
    /\ mb.bf[_get_next_buffer(i)].move_type = MOVE_TYPE_ALINE
    /\ 0 < mb.bf[i].exit_velocity
    /\ mb.bf[i].exit_velocity < mb.bf[i].exit_vmax
    /\ mb.bf[i].exit_velocity = mb.bf[_get_next_buffer(i)].entry_vmax

\* C26: a call of mp_aline changes neither the entry, cruise or exit velocity
\* nor the head, body or tail length of a block whose replannable flag was
\* false when the call started, the newly acquired block excepted
C26_FrozenBlocks ==
  [][ev'.op = "mp_aline"
       => \A i \in Slots \ {ev'.buf} :
            ~mb.bf[i].replannable
              => /\ mb'.bf[i].entry_velocity = mb.bf[i].entry_velocity
                 /\ mb'.bf[i].cruise_velocity = mb.bf[i].cruise_velocity
                 /\ mb'.bf[i].exit_velocity = mb.bf[i].exit_velocity
                 /\ mb'.bf[i].head_length = mb.bf[i].head_length
                 /\ mb'.bf[i].body_length = mb.bf[i].body_length
                 /\ mb'.bf[i].tail_length = mb.bf[i].tail_length]_vars

\* with no feedhold so far, mp_aline has planned a new block behind a running
\* block, which the executor had made not replannable, and a queued block
C26_Witness ==
  /\ ev.op = "mp_aline"
  /\ ev.buf # NULL
  /\ st.holds = 0
  /\ \E i \in Slots \ {ev.buf} :
       /\ mb.bf[i].buffer_state = MP_BUFFER_RUNNING
       /\ mb.bf[i].move_type = MOVE_TYPE_ALINE
       /\ ~mb.bf[i].replannable
       /\ mb.bf[i].exit_velocity > 0
       /\ _get_next_buffer(i) # ev.buf
       /\ mb.bf[_get_next_buffer(i)].buffer_state = MP_BUFFER_QUEUED

C28_SkipAdvances ==
  [][ev'.op = "mp_exec_move" /\ ev'.status = TG_GCODE_BLOCK_SKIPPED
       => /\ ev'.prep_line = 0
          /\ mr'.position # mr.position]_vars

\* C28: a call of the executor that returns GCODE_BLOCK_SKIPPED has computed
\* a segment time below the minimum, hands nothing to the step pulser (no
\* line, no dwell, no null move) and leaves the runtime position as it was
C28_SkipKeepsPosition ==
  [][ev'.op = "mp_exec_move" /\ ev'.status = TG_GCODE_BLOCK_SKIPPED
       => /\ _segment_too_short(mr')
          /\ ev'.prep_line = 0
          /\ ev'.prep_null = 0
          /\ ev'.prep_dwell = 0
          /\ mr'.position = mr.position]_vars

\* the executor has skipped a section short of the end of the move
C28_Witness ==
  /\ ev.op = "mp_exec_move"
  /\ ev.status = TG_GCODE_BLOCK_SKIPPED
  /\ _segment_too_short(mr)
  /\ ev.prep_line = 0
  /\ mr.position # mr.endpoint

\* C29: whenever mp_isbusy returns FALSE no slot of the planner queue is
\* QUEUED, PENDING or RUNNING and the step pulser is idle
C29_NotBusyMeansEmpty ==
  ~mp_isbusy => /\ \A i \in Slots : mb.bf[i].buffer_state \notin Committed
                /\ ~st_isbusy

\* C30: the runtime move state changes only in these ways.  The executor
\* takes it from OFF to the first section of a new block, passing over the
\* head only if the head is shorter than EPSILON; from HEAD to BODY and from
\* BODY to TAIL, never from a section to an earlier one; and from any section
\* to OFF.  The feedhold replan forces it to TAIL.  Nothing else changes it.
C30_SectionOrder ==
  [][mr'.move_state # mr.move_state
       => \/ /\ ev'.op = "mp_exec_move"
             /\ \/ /\ mr.move_state = MOVE_STATE_OFF
                   /\ mr'.move_state \in {MOVE_STATE_HEAD, MOVE_STATE_BODY, MOVE_STATE_TAIL}
                   /\ mr'.move_state # MOVE_STATE_HEAD => mr'.head_length < EPSILON
                \/ /\ mr.move_state = MOVE_STATE_HEAD
                   /\ mr'.move_state = MOVE_STATE_BODY
                \/ /\ mr.move_state = MOVE_STATE_BODY
                   /\ mr'.move_state = MOVE_STATE_TAIL
                \/ mr'.move_state = MOVE_STATE_OFF
          \/ /\ ev'.op = "mp_plan_hold_callback"
             /\ mr'.move_state = MOVE_STATE_TAIL]_vars

\* with no feedhold so far the executor has brought a block with a head and a
\* body to its tail
C30_Witness ==
  /\ ev.op = "mp_exec_move"
  /\ st.holds = 0
  /\ mr.move_state = MOVE_STATE_TAIL
  /\ mr.head_length >= EPSILON
  /\ mr.body_length >= EPSILON
  /\ mr.tail_length >= EPSILON

(***************************************************************************)
(* C31                                                                     *)
(***************************************************************************)
\* the runtime is in the middle of a section when mp_exec_move is called
C31_Continuing == mr.move_state # MOVE_STATE_OFF /\ mr.section_state # MOVE_STATE_NEW

\* the segment counter when _exec_aline_segment is entered in this step
C31_CountBefore == IF C31_Continuing THEN mr.segment_count ELSE mr'.segments

\* the step ran the last segment of a RUN1 period, which reloads the counter
C31_Reloaded ==
  /\ mr'.section_state = MOVE_STATE_RUN2
  /\ ~(C31_Continuing /\ mr.section_state = MOVE_STATE_RUN2)

\* C31: whenever the executor hands a segment to st_prep_line, the runtime
\* position becomes the segment target if st_prep_line returned TG_OK and is
\* left unchanged if it returned an error, and the segment counter is
\* decremented in both cases (and reloaded for the second half of a head or
\* tail when the decrement ends the first half)
C31_PositionFollowsPrep ==
  [][(ev'.op = "mp_exec_move" /\ ev'.prep_line = 1) =>
       /\ mr'.position = IF st.prep = TG_OK THEN mr'.target ELSE mr.position
       /\ mr'.segment_count = IF C31_CountBefore = 1 /\ C31_Reloaded
                              THEN mr'.segments
                              ELSE C31_CountBefore - 1]_vars

\* a segment was refused: the position stayed short of the target and the
\* counter went down from 2 segments to 1
C31_Witness ==
  /\ ev.op = "mp_exec_move"
  /\ ev.prep_line = 1
  /\ st.prep # TG_OK
  /\ mr.position # mr.target
  /\ mr.section_state = MOVE_STATE_RUN
  /\ mr.segments > 1
  /\ mr.segment_count = mr.segments - 1

C33_Available == get_axis_vector_length(mr.endpoint, mr.position)

C33_BrakingVelocity == _compute_next_segment_velocity(mr)

C33_BrakingLength ==
  _hold_braking_length(
    _get_target_length(C33_BrakingVelocity, 0, mb.bf[_get_run_buffer(mb).ret]),
    C33_Available, mb.bf[_get_run_buffer(mb).ret])

\* the replan runs and the deceleration fits in the runtime (case 1)
C33_Case1 ==
  /\ ev'.op = "mp_plan_hold_callback"
  /\ _get_run_buffer(mb).ret # NULL
  /\ C33_BrakingLength <= C33_Available

\* slot i is in the queue after the step: every slot from the run cursor up
\* to it is committed
C33_Queued(i) ==
  \A k \in 0 .. ((i - mb'.r) % PLANNER_BUFFER_POOL_SIZE) :
    mb'.bf[(mb'.r + k) % PLANNER_BUFFER_POOL_SIZE].buffer_state \in Committed

\* C33: in case 1 of the hold replan the runtime becomes a new tail of the
\* braking length from the braking velocity to zero; the run block stays at
\* the run cursor as a new move with entry_vmax 0 and the rest of the length,
\* planned from rest over that length; every block of the queue is replanned
\* in a chain from that block to a stop at the end of the queue; and the
\* feedhold state becomes DECEL
C33_HoldCase1 ==
  [][C33_Case1 =>
       /\ ev'.func = "case1"
       /\ mr'.move_state = MOVE_STATE_TAIL
       /\ mr'.section_state = MOVE_STATE_NEW
       /\ mr'.tail_length = C33_BrakingLength
       /\ mr'.cruise_velocity = C33_BrakingVelocity
       /\ mr'.exit_velocity = 0
       /\ mb'.r = ev'.buf
       /\ mb'.bf[ev'.buf].buffer_state = MP_BUFFER_RUNNING
       /\ mb'.bf[ev'.buf].move_state = MOVE_STATE_NEW
       /\ mb'.bf[ev'.buf].entry_vmax = 0
       /\ mb'.bf[ev'.buf].length = C33_Available - C33_BrakingLength
       /\ mr'.tail_length + mb'.bf[ev'.buf].length = C33_Available
       /\ mb'.bf[ev'.buf].entry_velocity = 0
       /\ mb'.bf[ev'.buf].head_length + mb'.bf[ev'.buf].body_length
            + mb'.bf[ev'.buf].tail_length = mb'.bf[ev'.buf].length
       /\ \A i \in Slots :
            C33_Queued(i) =>
              /\ i # ev'.buf =>
                   mb'.bf[i].entry_velocity = mb'.bf[_get_prev_buffer(i)].exit_velocity
              /\ ~C33_Queued(_get_next_buffer(i)) \/ _get_next_buffer(i) = ev'.buf =>
                   mb'.bf[i].exit_velocity = 0
       /\ cm'.hold_state = FEEDHOLD_DECEL]_vars

\* C33 as amended: the same, except that the replan can mark the run block
\* SKIP instead of NEW when its new length is too short for any section, and
\* then the block has no sections
C33_HoldCase1Planned ==
  [][C33_Case1 =>
       /\ ev'.func = "case1"
       /\ mr'.move_state = MOVE_STATE_TAIL
       /\ mr'.section_state = MOVE_STATE_NEW
       /\ mr'.tail_length = C33_BrakingLength
       /\ mr'.cruise_velocity = C33_BrakingVelocity
       /\ mr'.exit_velocity = 0
       /\ mb'.r = ev'.buf
       /\ mb'.bf[ev'.buf].buffer_state = MP_BUFFER_RUNNING
       /\ mb'.bf[ev'.buf].move_state \in {MOVE_STATE_NEW, MOVE_STATE_SKIP}
       /\ mb'.bf[ev'.buf].entry_vmax = 0
       /\ mb'.bf[ev'.buf].length = C33_Available - C33_BrakingLength
       /\ mr'.tail_length + mb'.bf[ev'.buf].length = C33_Available
       /\ mb'.bf[ev'.buf].entry_velocity = 0
       /\ mb'.bf[ev'.buf].head_length + mb'.bf[ev'.buf].body_length
            + mb'.bf[ev'.buf].tail_length
              = IF mb'.bf[ev'.buf].move_state = MOVE_STATE_SKIP
                  THEN 0 ELSE mb'.bf[ev'.buf].length
       /\ \A i \in Slots :
            C33_Queued(i) =>
              /\ i # ev'.buf =>
                   mb'.bf[i].entry_velocity = mb'.bf[_get_prev_buffer(i)].exit_velocity
              /\ ~C33_Queued(_get_next_buffer(i)) \/ _get_next_buffer(i) = ev'.buf =>
                   mb'.bf[i].exit_velocity = 0
       /\ cm'.hold_state = FEEDHOLD_DECEL]_vars

\* after a case 1 replan: a braking tail in the runtime, a filler block of
\* nonzero length at the run cursor and a queued line behind it that now
\* starts at the filler's exit velocity
C33_Witness ==
  /\ ev.op = "mp_plan_hold_callback"
  /\ ev.func = "case1"
  /\ mr.tail_length > 0
  /\ mr.cruise_velocity > 0
  /\ ev.buf # NULL
  /\ mb.bf[ev.buf].length > 0
  /\ mb.bf[ev.buf].exit_velocity > 0
  /\ mb.bf[_get_next_buffer(ev.buf)].buffer_state = MP_BUFFER_QUEUED
  /\ mb.bf[_get_next_buffer(ev.buf)].move_type = MOVE_TYPE_ALINE

(***************************************************************************)
(* C34                                                                     *)
(***************************************************************************)
\* slot i is in the queue: every slot from the run cursor up to it is committed
C34_Queued(i) ==
  \A k \in 0 .. ((i - mb.r) % PLANNER_BUFFER_POOL_SIZE) :
    mb.bf[(mb.r + k) % PLANNER_BUFFER_POOL_SIZE].buffer_state \in Committed

C34_Line(i) == C34_Queued(i) /\ mb.bf[i].move_type = MOVE_TYPE_ALINE

C34_Pause(i) ==
  C34_Queued(i) /\ mb.bf[i].move_type \in {MOVE_TYPE_DWELL, MOVE_TYPE_COMMAND}

\* C34: in every state a line that is followed in the queue by a dwell or a
\* command is planned to leave at velocity 0, and a line that follows one in
\* the queue is planned to enter at velocity 0
C34_StopAroundPauses ==
  \A i \in Slots :
    C34_Line(i) =>
      /\ (C34_Pause(_get_next_buffer(i)) /\ _get_next_buffer(i) # mb.r) =>
           mb.bf[i].exit_velocity = 0
      /\ (C34_Pause(_get_prev_buffer(i)) /\ i # mb.r) =>
           mb.bf[i].entry_velocity = 0

\* after a feedhold replan: a line, then a dwell or command, then a line that
\* could enter at speed (entry_vmax above 0)
C34_Witness ==
  /\ ev.op = "mp_plan_hold_callback"
  /\ ev.status = TG_OK
  /\ \E i \in Slots :
       /\ C34_Line(i)
       /\ mb.bf[i].cruise_velocity > 0
       /\ C34_Pause(_get_next_buffer(i))
       /\ _get_next_buffer(i) # mb.r
       /\ C34_Line(_get_next_buffer(_get_next_buffer(i)))
       /\ _get_next_buffer(_get_next_buffer(i)) # mb.r
       /\ mb.bf[_get_next_buffer(_get_next_buffer(i))].entry_vmax > 0

(***************************************************************************)
(* C35                                                                     *)
(***************************************************************************)
\* the block as the planner handed it to _calculate_trapezoid: the cruise
\* velocity requested is cruise_vmax (the generator leaves the entry and
\* exit velocities alone when they are equal)
C35_Requested(bf) == [bf EXCEPT !.cruise_velocity = bf.cruise_vmax]

\* C35: a committed line with equal entry and exit velocities and a length
\* below MIN_HEAD_LENGTH + MIN_TAIL_LENGTH is planned as a body only (no head,
\* no tail, the body is the whole length) or is marked SKIP
C35_ShortMoveIsBodyOrSkip ==
  \A i \in Slots :
    (/\ mb.bf[i].buffer_state \in Committed
     /\ mb.bf[i].move_type = MOVE_TYPE_ALINE
     /\ mb.bf[i].entry_velocity = mb.bf[i].exit_velocity
     /\ mb.bf[i].length < MIN_HEAD_LENGTH(C35_Requested(mb.bf[i]))
                            + MIN_TAIL_LENGTH(C35_Requested(mb.bf[i])))
    => \/ mb.bf[i].move_state = MOVE_STATE_SKIP
       \/ /\ mb.bf[i].head_length = 0
          /\ mb.bf[i].tail_length = 0
          /\ mb.bf[i].body_length = mb.bf[i].length

(***************************************************************************)
(* C36                                                                     *)
(***************************************************************************)
\* the n slots of the ring from slot from on
C36_Run(from, n) == {(from + k) % PLANNER_BUFFER_POOL_SIZE : k \in 0 .. (n - 1)}

C36_CommittedSlots == {i \in Slots : mb.bf[i].buffer_state \in Committed}

\* C36: the three cursors partition the ring: from the run cursor up to the
\* queue cursor lie exactly the committed slots, RUNNING, PENDING or QUEUED
\* at the run cursor and QUEUED after it; from the queue cursor up to the
\* write cursor lie exactly the LOADING slots, at most one; every other slot
\* is EMPTY; so the slot that _queue_write_buffer commits is the slot that
\* the latest _get_write_buffer returned
C36_CursorsPartitionRing ==
  /\ C36_CommittedSlots = C36_Run(mb.r, Cardinality(C36_CommittedSlots))
  /\ mb.q = (mb.r + Cardinality(C36_CommittedSlots)) % PLANNER_BUFFER_POOL_SIZE
  /\ \A i \in C36_CommittedSlots \ {mb.r} : mb.bf[i].buffer_state = MP_BUFFER_QUEUED
  /\ Cardinality(SlotsIn(mb, MP_BUFFER_LOADING)) <= 1
  /\ SlotsIn(mb, MP_BUFFER_LOADING)
       = C36_Run(mb.q, Cardinality(SlotsIn(mb, MP_BUFFER_LOADING)))
  /\ mb.w = (mb.q + Cardinality(SlotsIn(mb, MP_BUFFER_LOADING))) % PLANNER_BUFFER_POOL_SIZE
  /\ \A i \in Slots \ (C36_CommittedSlots \cup SlotsIn(mb, MP_BUFFER_LOADING)) :
       mb.bf[i].buffer_state = MP_BUFFER_EMPTY

(***************************************************************************)
(* C37                                                                     *)
(***************************************************************************)
\* C37: when the interrupt's _free_run_buffer can run between the load and
\* the store of the foreground's decrement, no update of the counter is
\* lost: outside that window buffers_available is the number of EMPTY
\* slots, and inside it the counter is that number plus the slot just
\* taken, whose decrement is still to be stored
C37_NoLostUpdate ==
  mb.buffers_available
    = Cardinality(SlotsIn(mb, MP_BUFFER_EMPTY)) + (IF st.pc = "store" THEN 1 ELSE 0)

(***************************************************************************)
(* C38                                                                     *)
(***************************************************************************)
\* C38: under fair scheduling of the executor and of the feedhold callbacks
\* every hold request leads to HOLD: once the feedhold state is SYNC it
\* eventually becomes HOLD
C38_HoldReached ==
  (cm.hold_state = FEEDHOLD_SYNC) ~> (cm.hold_state = FEEDHOLD_HOLD)

(***************************************************************************)
(* C39                                                                     *)
(***************************************************************************)
\* a block is committed in the queue
C39_Committed == \E i \in Slots : mb.bf[i].buffer_state \in Committed

\* the queue has drained: every slot is EMPTY and the runtime is idle
C39_Drained ==
  /\ \A i \in Slots : mb.bf[i].buffer_state = MP_BUFFER_EMPTY
  /\ mr.move_state = MOVE_STATE_OFF

\* the block of line k is committed and not yet running
C39_Waiting(k) ==
  \E i \in Slots :
    /\ mb.bf[i].buffer_state \in {MP_BUFFER_QUEUED, MP_BUFFER_PENDING}
    /\ mb.bf[i].lineindex = k

\* the executor has just run the block of line k and freed it
C39_Freed(k) == ev.op = "mp_exec_move" /\ ev.lineindex = k /\ ev.freed = 1

\* C39: with a fair executor, no feedhold and every segment accepted, every
\* committed block is eventually run and freed and the queue eventually
\* drains, unless a flush discards the queue first; this holds before a flush
\* and for the blocks committed after a flush
C39_QueueDrains ==
  \A n \in 0 .. MaxFlushes :
    /\ (C39_Committed /\ st.flushes = n) ~> (C39_Drained \/ st.flushes # n)
    /\ \A k \in 1 .. MaxLineIndex :
         (C39_Waiting(k) /\ st.flushes = n) ~> (C39_Freed(k) \/ st.flushes # n)

(***************************************************************************)
(* C40                                                                     *)
(***************************************************************************)
\* a move is latched in the runtime and is planned to end at speed
C40_AtSpeed == mr.move_state # MOVE_STATE_OFF /\ mr.exit_velocity > 0

\* an aline block is committed behind the latched move: the block after the
\* run block, or the run block itself when a feedhold replan has re-enlisted
\* it to be run again after the move in the runtime
C40_Successor ==
  /\ mb.bf[mb.r].buffer_state = MP_BUFFER_RUNNING
  /\ \/ /\ mb.bf[mb.r].move_state # MOVE_STATE_RUN
        /\ mb.bf[mb.r].move_type = MOVE_TYPE_ALINE
     \/ /\ mb.bf[_get_next_buffer(mb.r)].buffer_state = MP_BUFFER_QUEUED
        /\ mb.bf[_get_next_buffer(mb.r)].move_type = MOVE_TYPE_ALINE

\* C40: the executor never runs off the end of the queue at speed: whenever
\* the move latched in the runtime has a nonzero exit velocity, an aline
\* block is committed in the queue behind it
C40_NeverOffTheEndAtSpeed == C40_AtSpeed => C40_Successor
====
